---- MODULE Spec2Model ----
(***************************************************************************)
(* JSRecon-Buddy: the passive-scan coordinator of the background service   *)
(* worker (src/src/background.js, the scansInProgress variant, lines       *)
(* 154-579).                                                                *)
(*                                                                         *)
(* The service worker is single threaded.  Every listener and every async  *)
(* function runs from one await to the next without interruption; at an    *)
(* await other listeners and continuations may run.  One action of this    *)
(* module is one such uninterrupted run: an event listener up to its first *)
(* await, or the continuation of one await up to the next.  A chrome.* call*)
(* that reads (tabs.get, storage.session.get) delivers the value of the    *)
(* moment its continuation runs; a call that writes (storage.session.set,  *)
(* remove, action.setIcon ...) takes effect when it is issued.             *)
(***************************************************************************)
EXTENDS Integers, Sequences, FiniteSets, TLC

(***************************************************************************)
(* Bounds of the model.                                                    *)
(***************************************************************************)
MaxEvents == 3        \* browser events delivered in one run
MaxFindings == 1      \* a scan finds 0..MaxFindings secrets

(***************************************************************************)
(* Strings are sequences of characters, so that startsWith and the         *)
(* template literal `${tabId}|${url}` are computed as the code does.       *)
(***************************************************************************)
Http == <<"h", "t", "t", "p">>
Webstore == <<"h", "t", "t", "p", "s", ":", "/", "/", "c", "h", "r", "o", "m", "e", ".", "g", "o", "o", "g", "l", "e", ".", "c", "o", "m", "/", "w", "e", "b", "s", "t", "o", "r", "e">>
UrlA == Http \o <<":", "/", "/", "a">>
UrlB == Http \o <<":", "/", "/", "b">>
UrlX == <<"c", "h", "r", "o", "m", "e", ":", "/", "/", "x">>
Urls == {UrlA, UrlB, UrlX}
Tabs == {1}

StartsWith(s, p) == Len(s) >= Len(p) /\ SubSeq(s, 1, Len(p)) = p

DigitChar(d) ==
  CASE d = 0 -> "0" [] d = 1 -> "1" [] d = 2 -> "2" [] d = 3 -> "3" [] d = 4 -> "4"
    [] d = 5 -> "5" [] d = 6 -> "6" [] d = 7 -> "7" [] d = 8 -> "8" [] d = 9 -> "9"

RECURSIVE TabIdString(_)
TabIdString(n) == IF n < 10 THEN <<DigitChar(n)>>
                  ELSE TabIdString(n \div 10) \o <<DigitChar(n % 10)>>

\* faulty variant: the separator is missing from the template literal
KeyPrefixBare(tabId) == TabIdString(tabId)
\* `${tabId}|`
KeyPrefix(tabId) == TabIdString(tabId) \o <<"|">>
\* `${tabId}|${tab.url}`
PageKey(tabId, url) == KeyPrefix(tabId) \o url

\* the guard both async functions apply to the tab they were given
Scannable(url) == StartsWith(url, Http) /\ ~StartsWith(url, Webstore)

(***************************************************************************)
(* State.                                                                  *)
(***************************************************************************)
VARIABLES
  tabs,             \* the browser's open tabs: tabId -> [url, nav]
  scannedPages,     \* Map pageKey -> findingsCount
  scansInProgress,  \* the tab ids that are keys of the Map scansInProgress
                    \* (its values, the scan promises, are never read)
  storage,          \* chrome.storage.session: key -> entry
  badge,            \* what chrome.action was last asked to show for a tab
  tasks,            \* the async function calls suspended at an await (a bag)
  events,           \* number of browser events delivered so far
  faulted,          \* history: a script injection or a storage write failed
  now,              \* overlay: the wall clock in ms, new Date().getTime()
  local,            \* overlay: chrome.storage.local, the value under getCacheKey()
  handed,           \* overlay: the last call of setCachedResults: its arguments and
                    \* the entry (data) it passed to chrome.storage.local.set
  returned,         \* overlay: what getCachedResults last returned
  scan,             \* overlay: the scan, [status, hostname, patterns]
  results,          \* overlay: processScriptsAsync's results, category -> Map
  findings,         \* passive scan: runPassiveScan's findings array
  log,              \* history: the matches handed to the two engines so far
  fetches,          \* the fetches of a page's external scripts: who asked, outcomes
  gathered,         \* the content sources handed to the scan once all fetches settled
  view,             \* overlay: the injected overlay, [open, header, rendered, scans]
  versionCache,     \* popup: chrome.storage.local, the value under 'versionCache'
  popup,            \* popup: the last run of checkVersion, [fetched, requested,
                    \* updateAvailable]; fetched is history: the time and the
                    \* version of the last manifest that was fetched
  worker,           \* offscreen document: per message its handler's position,
                    \* the request, performScan's findings and the responses sent
  walk,             \* an engine's pass over the content sources of a page:
                    \* [engine, status, scripts, next, contentMap, burst, order]
  sample,           \* a string handed to shannonEntropy and the value returned
  coordinator,      \* the queue-based coordinator of background.js (lines 580-985):
                    \* [scanQueue, isScanInProgress, open, scanned, complete,
                    \*  triggers, runs, calls, started, pushed, taken, thrown]
  decoding,         \* a text handed to decodeText and the text returned
  context,          \* a match in a source text, the occurrence recorded for it and
                    \* the context windows shown for the occurrence
  reconstruction    \* a call of reconstructSource: its position, the source map
                    \* it was answered with, the sources it has collected, how
                    \* each fetch went and what its promise settled with

\* the state of the background service worker and that of the overlay script
backgroundVars == <<tabs, scannedPages, scansInProgress, storage, badge, tasks, events, faulted>>
cacheVars == <<now, local, handed, returned>>
scanVars == <<scan, results, findings, log>>
fetchVars == <<fetches, gathered>>
\* the state of the other parts of the extension
partVars == <<view, versionCache, popup, worker, walk, sample, coordinator, decoding, context,
             reconstruction>>
overlayVars == <<cacheVars, scanVars, fetchVars, partVars>>
vars == <<backgroundVars, overlayVars>>

\* JavaScript's null / undefined
Null == [type |-> "null"]
Undefined == [type |-> "undefined"]

\* the overlay was not injected: nothing cached, nothing read
CacheIdle == now = 1 /\ local = Undefined /\ handed = Undefined /\ returned = Undefined
\* no scan was started
ScanIdle ==
  /\ scan = [status |-> "idle"] /\ results = Undefined /\ findings = <<>> /\ log = <<>>
\* no script is being fetched
FetchIdle == fetches = [engine |-> "none"] /\ gathered = Undefined
\* no overlay on the page
ViewIdle == view = [open |-> FALSE, header |-> "", rendered |-> Undefined, scans |-> 0]
\* the popup was never opened
PopupIdle ==
  /\ versionCache = Undefined
  /\ popup = [fetched |-> Undefined, requested |-> FALSE, updateAvailable |-> FALSE]
\* the offscreen document received no message
MaxRequests == 2    \* messages sent to the offscreen document in one run
WorkerIdle ==
  worker = [id \in 1..MaxRequests |->
              [pc |-> "none", type |-> "", rules |-> <<>>, sources |-> <<>>, next |-> 0,
               findings |-> <<>>, responses |-> <<>>, burst |-> 0]]
\* no content source was handed to an engine
WalkIdle == walk = [engine |-> "none", status |-> "idle", scripts |-> <<>>, next |-> 0, contentMap |-> <<>>, burst |-> 0, order |-> <<>>]
\* shannonEntropy was not called
SampleIdle == sample = [str |-> <<>>, entropy |-> Undefined]
\* the queue-based coordinator was not loaded
CoordinatorIdle ==
  coordinator = [scanQueue |-> <<>>, isScanInProgress |-> FALSE, open |-> {}, scanned |-> {},
                 complete |-> {}, triggers |-> {}, runs |-> {}, calls |-> 0, started |-> 0,
                 pushed |-> <<>>, taken |-> <<>>, thrown |-> {}]
\* decodeText was not called
DecodingIdle == decoding = [code |-> <<>>, decodedCode |-> Undefined]
\* no match was processed for a context window
ContextIdle == context = [status |-> "idle"]
\* reconstructSource was not called
ReconstructionIdle == reconstruction = [status |-> "idle"]
PartIdle ==
  /\ ViewIdle /\ PopupIdle /\ WorkerIdle /\ WalkIdle /\ SampleIdle /\ CoordinatorIdle
  /\ DecodingIdle /\ ContextIdle /\ ReconstructionIdle
OverlayIdle == CacheIdle /\ ScanIdle /\ FetchIdle /\ PartIdle

\* map helpers (JavaScript Map / storage area)
Has(m, k) == k \in DOMAIN m
MapSet(m, k, v) == [x \in DOMAIN m \cup {k} |-> IF x = k THEN v ELSE m[x]]
MapDelete(m, k) == [x \in DOMAIN m \ {k} |-> m[x]]
MapDeleteAll(m, ks) == [x \in DOMAIN m \ ks |-> m[x]]
EmptyMap == [x \in {} |-> 0]

\* storage entries; force is history: the force argument of the trigger
\* whose scan stored the entry
Scanning == [status |-> "scanning"]
Complete(n, cm, force) ==
  [status |-> "complete", results |-> n, contentMap |-> cm, force |-> force]
IsComplete(m, k) == Has(m, k) /\ m[k].status = "complete"
\* storedData.results ? storedData.results.length : 0
ResultsLength(entry) == entry.results

\* chrome.action state of a tab
DefaultIcon == [icon |-> "default", count |-> 0]
ScanningIcon == [icon |-> "scanning", count |-> 0]
NotFoundIcon == [icon |-> "notfound", count |-> 0]
\* updateActionUI(tabId, findingsCount)
ActionUI(findingsCount) ==
  IF findingsCount > 0 THEN [icon |-> "found", count |-> findingsCount]
  ELSE NotFoundIcon

TabOpen(t) == t \in DOMAIN tabs

\* a suspended call of fn for tab t; url is the tab.url it read, count its
\* findings count; stale is history: a forced scan of the same page was
\* launched while this non-forced scan was in flight; scraped is history:
\* the URL of the document scrapePageContent was injected into
Task(fn, pc, t, force, url, count) ==
  [fn |-> fn, pc |-> pc, tab |-> t, force |-> force, url |-> url, count |-> count,
   stale |-> FALSE, scraped |-> <<>>]

\* bags of tasks
Add(bag, k) == [x \in DOMAIN bag \cup {k} |-> IF x \in DOMAIN bag THEN
                                                   IF x = k THEN bag[x] + 1 ELSE bag[x]
                                                 ELSE 1]
Remove(bag, k) == [x \in (IF bag[k] = 1 THEN DOMAIN bag \ {k} ELSE DOMAIN bag) |->
                     IF x = k THEN bag[x] - 1 ELSE bag[x]]
Running == DOMAIN tasks

\* the pcs at which a call of triggerPassiveScan is running its scan promise
ScanPcs == {"stateTabsGet", "executeScript", "fetch", "storageSet", "setRejected",
            "retryRejected"}
InFlight(k) == k.fn = "triggerPassiveScan" /\ k.pc \in ScanPcs

\* a tab record: nav is "loading" from tabs.onUpdated(loading) to
\* webNavigation.onCompleted, "completed" after it, and "idle" when the
\* current URL was not announced by a page load
BackgroundInit ==
  /\ tabs = [t \in Tabs |-> [url |-> UrlA, nav |-> "idle"]]
  /\ scannedPages = EmptyMap
  /\ scansInProgress = {}
  /\ storage = EmptyMap
  /\ badge = [t \in Tabs |-> DefaultIcon]
  /\ tasks = EmptyMap
  /\ events = 0
  /\ faulted = FALSE

Init == BackgroundInit /\ OverlayIdle

(***************************************************************************)
(* Helpers shared by the listeners and the async functions.                *)
(***************************************************************************)
Spawn(task) == tasks' = Add(tasks, task)
Finish(k) == tasks' = Remove(tasks, k)
Become(k, k2) == tasks' = Add(Remove(tasks, k), k2)
Goto(k, pc) == Become(k, [k EXCEPT !.pc = pc])
Deliver == events < MaxEvents /\ events' = events + 1

\* keys of a map that start with `${tabId}|`
KeysOfTab(m, tabId) == {key \in DOMAIN m : StartsWith(key, KeyPrefix(tabId))}

\* faulty variant: the in-progress check ignores force
SuppressDuplicateAlways(tabId, force) == tabId \in scansInProgress

\* if (scansInProgress.has(tabId) && !force) return;
SuppressDuplicate(tabId, force) == tabId \in scansInProgress /\ ~force

\* history: the non-forced scans of the tab's page that have not stored
\* their result yet become stale when a forced rescan of the tab is requested
WillStore(k) == InFlight(k) /\ k.pc \in {"stateTabsGet", "executeScript", "fetch", "setRejected"}
Outdated(k, tabId) ==
  WillStore(k) /\ ~k.force /\ k.tab = tabId /\ TabOpen(tabId) /\ k.url = tabs[tabId].url
MarkStale(bag, tabId) ==
  LET mark(k) == IF Outdated(k, tabId) THEN [k EXCEPT !.stale = TRUE] ELSE k
      from(x) == {k \in DOMAIN bag : mark(k) = x}
      sum(x) == (IF x \in from(x) THEN bag[x] ELSE 0) +
                (IF \E k \in from(x) : k # x THEN bag[[x EXCEPT !.stale = FALSE]] ELSE 0)
  IN [x \in {mark(k) : k \in DOMAIN bag} |-> sum(x)]

\* triggerPassiveScan(tabId, force) up to its first await (chrome.tabs.get)
TriggerPassiveScan(tabId, force) ==
  LET known == IF force THEN MarkStale(tasks, tabId) ELSE tasks IN
  IF SuppressDuplicate(tabId, force)
  THEN tasks' = known
  ELSE tasks' = Add(known, Task("triggerPassiveScan", "tabsGet", tabId, force, <<>>, 0))

(***************************************************************************)
(* Browser events and their listeners.                                     *)
(***************************************************************************)
\* chrome.tabs.onUpdated with changeInfo.status = 'loading': the tab starts
\* to load url (a new page or a reload)
OnUpdatedLoading(tabId, url) ==
  /\ Deliver
  /\ TabOpen(tabId)
  /\ tabs' = [tabs EXCEPT ![tabId] = [url |-> url, nav |-> "loading"]]
  /\ IF StartsWith(url, Http)
     THEN Spawn(Task("setInitialLoadingState", "tabsGet", tabId, FALSE, <<>>, 0))
     ELSE UNCHANGED tasks
  /\ UNCHANGED <<scannedPages, scansInProgress, storage, badge, faulted>>
  /\ UNCHANGED overlayVars

\* faulty variant: the frame of the event is not looked at
AnyFrame(frameId) == TRUE
\* details.frameId === 0: frame 0 is the tab's main document
MainFrame(frameId) == frameId = 0

\* chrome.webNavigation.onCompleted
OnCompleted(tabId, frameId) ==
  /\ Deliver
  /\ TabOpen(tabId)
  /\ IF MainFrame(frameId)
     THEN /\ tabs[tabId].nav = "loading"
          /\ tabs' = [tabs EXCEPT ![tabId].nav = "completed"]
          /\ TriggerPassiveScan(tabId, FALSE)
     ELSE UNCHANGED <<tabs, tasks>>
  /\ UNCHANGED <<scannedPages, scansInProgress, storage, badge, faulted>>
  /\ UNCHANGED overlayVars

\* chrome.tabs.onActivated
OnActivated(tabId) ==
  /\ Deliver
  /\ TabOpen(tabId)
  /\ TriggerPassiveScan(tabId, FALSE)
  /\ UNCHANGED <<tabs, scannedPages, scansInProgress, storage, badge, faulted>>
  /\ UNCHANGED overlayVars

\* chrome.webNavigation.onHistoryStateUpdated: a page loaded over http(s)
\* rewrites the URL of its frame without a page load
OnHistoryStateUpdated(tabId, url, frameId) ==
  /\ Deliver
  /\ TabOpen(tabId)
  /\ StartsWith(tabs[tabId].url, Http) /\ StartsWith(url, Http)
  /\ tabs[tabId].nav # "loading"
  /\ IF MainFrame(frameId)
     THEN /\ tabs' = [tabs EXCEPT ![tabId] = [url |-> url, nav |-> "idle"]]
          /\ TriggerPassiveScan(tabId, FALSE)
     ELSE UNCHANGED <<tabs, tasks>>
  /\ UNCHANGED <<scannedPages, scansInProgress, storage, badge, faulted>>
  /\ UNCHANGED overlayVars

\* what the removal listener leaves of scannedPages, storage, scansInProgress
RemovedScannedPages(tabId) == MapDeleteAll(scannedPages, KeysOfTab(scannedPages, tabId))
RemovedStorage(tabId) == MapDeleteAll(storage, KeysOfTab(scannedPages, tabId))
RemovedScansInProgress(tabId) == scansInProgress \ {tabId}

\* chrome.tabs.onRemoved
OnRemoved(tabId) ==
  /\ Deliver
  /\ TabOpen(tabId)
  /\ tabs' = MapDelete(tabs, tabId)
  /\ scannedPages' = RemovedScannedPages(tabId)
  /\ storage' = RemovedStorage(tabId)
  /\ scansInProgress' = RemovedScansInProgress(tabId)
  /\ UNCHANGED <<badge, tasks, faulted>>
  /\ UNCHANGED overlayVars

\* what the FORCE_PASSIVE_RESCAN handler leaves of scannedPages
ForcedScannedPages(tabId) == MapDeleteAll(scannedPages, KeysOfTab(scannedPages, tabId))

\* chrome.runtime.onMessage, request.type = 'FORCE_PASSIVE_RESCAN' (sent by
\* the popup for the tab it was opened on)
OnForcePassiveRescan(tabId) ==
  /\ Deliver
  /\ TabOpen(tabId)
  /\ scannedPages' = ForcedScannedPages(tabId)
  /\ TriggerPassiveScan(tabId, TRUE)
  /\ UNCHANGED <<tabs, scansInProgress, storage, badge, faulted>>
  /\ UNCHANGED overlayVars

(***************************************************************************)
(* setInitialLoadingState(tabId), one action per await.                    *)
(***************************************************************************)
\* const tab = await chrome.tabs.get(tabId): rejects when the tab is gone
InitialTabsGet(k) ==
  /\ k.fn = "setInitialLoadingState" /\ k.pc = "tabsGet"
  /\ IF TabOpen(k.tab) /\ Scannable(tabs[k.tab].url)
     THEN Become(k, [k EXCEPT !.pc = "storageGet", !.url = tabs[k.tab].url])
     ELSE Finish(k)
  /\ UNCHANGED <<tabs, scannedPages, scansInProgress, storage, badge, events, faulted>>
  /\ UNCHANGED overlayVars

\* const dataWrapper = await chrome.storage.session.get(pageKey)
InitialStorageGet(k) ==
  /\ k.fn = "setInitialLoadingState" /\ k.pc = "storageGet"
  /\ LET pageKey == PageKey(k.tab, k.url) IN
     IF IsComplete(storage, pageKey)
     THEN /\ Become(k, [k EXCEPT !.pc = "timeout", !.count = ResultsLength(storage[pageKey])])
          /\ UNCHANGED <<storage, badge>>
     ELSE /\ badge' = [badge EXCEPT ![k.tab] = ScanningIcon]
          /\ storage' = MapSet(storage, pageKey, Scanning)
          /\ Finish(k)
  /\ UNCHANGED <<tabs, scannedPages, scansInProgress, events, faulted>>
  /\ UNCHANGED overlayVars

\* await new Promise(r => setTimeout(r, 400))
InitialTimeout(k) ==
  /\ k.fn = "setInitialLoadingState" /\ k.pc = "timeout"
  /\ badge' = [badge EXCEPT ![k.tab] = ActionUI(k.count)]
  /\ scannedPages' = MapSet(scannedPages, PageKey(k.tab, k.url), k.count)
  /\ Finish(k)
  /\ UNCHANGED <<tabs, scansInProgress, storage, events, faulted>>
  /\ UNCHANGED overlayVars

(***************************************************************************)
(* triggerPassiveScan(tabId, force), one action per await.                 *)
(***************************************************************************)
\* scannedPages.has(pageKey) && !force
MemoHit(pageKey, force) == Has(scannedPages, pageKey) /\ ~force
\* faulty variant: the negation of force is lost
CacheHitWhenForced(pageKey, force) == IsComplete(storage, pageKey) /\ force
\* storedData && storedData.status === 'complete' && !force
CacheHit(pageKey, force) == IsComplete(storage, pageKey) /\ ~force

\* faulty variant: .then instead of .finally, the entry survives a rejection
AfterSettleResolvedOnly(tabId, outcome) ==
  IF outcome = "resolved" THEN scansInProgress \ {tabId} ELSE scansInProgress

\* scansInProgress once the scan promise of tabId has settled with outcome
\* "resolved" or "rejected": scanPromise.finally(() => scansInProgress.delete(tabId))
AfterSettle(tabId, outcome) == scansInProgress \ {tabId}

Settle(k, outcome) ==
  /\ scansInProgress' = AfterSettle(k.tab, outcome)
  /\ Finish(k)

\* const tab = await chrome.tabs.get(tabId)
TriggerTabsGet(k) ==
  /\ k.fn = "triggerPassiveScan" /\ k.pc = "tabsGet"
  /\ IF ~TabOpen(k.tab)
     THEN \* rejected with 'No tab with id': the catch block
          /\ scansInProgress' = scansInProgress \ {k.tab}
          /\ Finish(k)
          /\ UNCHANGED badge
     ELSE LET url == tabs[k.tab].url
              pageKey == PageKey(k.tab, url) IN
          IF ~Scannable(url)
          THEN /\ Finish(k)
               /\ UNCHANGED <<scansInProgress, badge>>
          ELSE IF MemoHit(pageKey, k.force)
          THEN /\ badge' = [badge EXCEPT ![k.tab] = ActionUI(scannedPages[pageKey])]
               /\ Finish(k)
               /\ UNCHANGED scansInProgress
          ELSE /\ Become(k, [k EXCEPT !.pc = "storageGet", !.url = url])
               /\ UNCHANGED <<scansInProgress, badge>>
  /\ UNCHANGED <<tabs, scannedPages, storage, events, faulted>>
  /\ UNCHANGED overlayVars

\* const dataWrapper = await chrome.storage.session.get(pageKey); on a miss
\* the scan promise is created: it runs setIconAndState(tabId, 'scanning')
\* up to its chrome.tabs.get, and is stored in scansInProgress
TriggerStorageGet(k) ==
  /\ k.fn = "triggerPassiveScan" /\ k.pc = "storageGet"
  /\ LET pageKey == PageKey(k.tab, k.url) IN
     IF CacheHit(pageKey, k.force)
     THEN /\ badge' = [badge EXCEPT ![k.tab] = ActionUI(ResultsLength(storage[pageKey]))]
          /\ scannedPages' = MapSet(scannedPages, pageKey, ResultsLength(storage[pageKey]))
          /\ Finish(k)
          /\ UNCHANGED scansInProgress
     ELSE /\ badge' = [badge EXCEPT ![k.tab] = ScanningIcon]
          /\ scansInProgress' = scansInProgress \cup {k.tab}
          /\ Goto(k, "stateTabsGet")
          /\ UNCHANGED scannedPages
  /\ UNCHANGED <<tabs, storage, events, faulted>>
  /\ UNCHANGED overlayVars

\* setIconAndState(tabId, 'scanning'): const tab = await chrome.tabs.get(tabId),
\* then the 'scanning' entry is stored under the key of the URL the tab has
\* now; a rejection is caught inside setIconAndState.  The scan promise goes
\* on to chrome.scripting.executeScript.
ScanStateTabsGet(k) ==
  /\ k.fn = "triggerPassiveScan" /\ k.pc = "stateTabsGet"
  /\ IF TabOpen(k.tab)
     THEN storage' = MapSet(storage, PageKey(k.tab, tabs[k.tab].url), Scanning)
     ELSE UNCHANGED storage
  /\ Goto(k, "executeScript")
  /\ UNCHANGED <<tabs, scannedPages, scansInProgress, badge, events, faulted>>
  /\ UNCHANGED overlayVars

\* what chrome.scripting.executeScript can deliver for the tab: it rejects
\* when the tab is gone or its page may not be scripted; otherwise the
\* injection fails, yields no result, or yields the scraped page
ScrapeOutcomes(tabId) ==
  IF TabOpen(tabId) /\ Scannable(tabs[tabId].url)
  THEN {"rejected", "noResult", "pageData"}
  ELSE {"rejected"}

\* const injectionResults = await chrome.scripting.executeScript(...)
ScanExecuteScript(k) ==
  /\ k.fn = "triggerPassiveScan" /\ k.pc = "executeScript"
  /\ \E r \in ScrapeOutcomes(k.tab) :
       /\ faulted' = (faulted \/ (r # "pageData" /\ TabOpen(k.tab)))
       /\ CASE r = "rejected" ->
                 /\ Settle(k, "rejected")
                 /\ UNCHANGED badge
            [] r = "noResult" ->
                 \* await setIconAndState(tabId, 'idle')
                 /\ badge' = [badge EXCEPT ![k.tab] = NotFoundIcon]
                 /\ Settle(k, "resolved")
            [] r = "pageData" ->
                 \* runPassiveScan(pageData, tab.id, pageKey) up to its Promise.all
                 /\ Become(k, [k EXCEPT !.pc = "fetch", !.scraped = tabs[k.tab].url])
                 /\ UNCHANGED <<scansInProgress, badge>>
  /\ UNCHANGED <<tabs, scannedPages, storage, events>>
  /\ UNCHANGED overlayVars

\* runPassiveScan after await Promise.all(fetches): the findings are
\* computed and the first chrome.storage.session.set is issued; it stores
\* the entry or rejects
ScanFetch(k) ==
  /\ k.fn = "triggerPassiveScan" /\ k.pc = "fetch"
  /\ \E n \in 0..MaxFindings, stored \in BOOLEAN :
       IF stored
       THEN /\ storage' = MapSet(storage, PageKey(k.tab, k.url), Complete(n, "full", k.force))
            /\ Become(k, [k EXCEPT !.pc = "storageSet", !.count = n])
            /\ UNCHANGED faulted
       ELSE /\ Become(k, [k EXCEPT !.pc = "setRejected", !.count = n])
            /\ faulted' = TRUE
            /\ UNCHANGED storage
  /\ UNCHANGED <<tabs, scannedPages, scansInProgress, badge, events>>
  /\ UNCHANGED overlayVars

\* the catch block of runPassiveScan: a quota error is retried with an
\* empty contentMap, any other error is dropped
ScanSetRejected(k) ==
  /\ k.fn = "triggerPassiveScan" /\ k.pc = "setRejected"
  /\ \E r \in {"other", "quota", "quotaAgain"} :
       CASE r = "other" ->
              /\ badge' = [badge EXCEPT ![k.tab] = ActionUI(k.count)]
              /\ Settle(k, "resolved")
              /\ UNCHANGED storage
         [] r = "quota" ->
              /\ storage' = MapSet(storage, PageKey(k.tab, k.url), Complete(k.count, "empty", k.force))
              /\ Goto(k, "storageSet")
              /\ UNCHANGED <<scansInProgress, badge>>
         [] r = "quotaAgain" ->
              /\ Goto(k, "retryRejected")
              /\ UNCHANGED <<scansInProgress, storage, badge>>
  /\ UNCHANGED <<tabs, scannedPages, events, faulted>>
  /\ UNCHANGED overlayVars

\* the retry rejected too: the error leaves runPassiveScan and rejects the
\* scan promise
ScanRetryRejected(k) ==
  /\ k.fn = "triggerPassiveScan" /\ k.pc = "retryRejected"
  /\ Settle(k, "rejected")
  /\ UNCHANGED <<tabs, scannedPages, storage, badge, events, faulted>>
  /\ UNCHANGED overlayVars

\* the awaited chrome.storage.session.set resolved: updateActionUI(tabId,
\* findings.length), and the scan promise resolves
ScanStorageSet(k) ==
  /\ k.fn = "triggerPassiveScan" /\ k.pc = "storageSet"
  /\ badge' = [badge EXCEPT ![k.tab] = ActionUI(k.count)]
  /\ Settle(k, "resolved")
  /\ UNCHANGED <<tabs, scannedPages, storage, events, faulted>>
  /\ UNCHANGED overlayVars

(***************************************************************************)
(* The specification.                                                      *)
(***************************************************************************)
FrameIds == {0, 1}

Next ==
  \/ \E t \in Tabs, u \in Urls : OnUpdatedLoading(t, u)
  \/ \E t \in Tabs, f \in FrameIds : OnCompleted(t, f)
  \/ \E t \in Tabs : OnActivated(t)
  \/ \E t \in Tabs, u \in Urls, f \in FrameIds : OnHistoryStateUpdated(t, u, f)
  \/ \E t \in Tabs : OnRemoved(t)
  \/ \E t \in Tabs : OnForcePassiveRescan(t)
  \/ \E k \in Running : InitialTabsGet(k)
  \/ \E k \in Running : InitialStorageGet(k)
  \/ \E k \in Running : InitialTimeout(k)
  \/ \E k \in Running : TriggerTabsGet(k)
  \/ \E k \in Running : TriggerStorageGet(k)
  \/ \E k \in Running : ScanStateTabsGet(k)
  \/ \E k \in Running : ScanExecuteScript(k)
  \/ \E k \in Running : ScanFetch(k)
  \/ \E k \in Running : ScanSetRejected(k)
  \/ \E k \in Running : ScanRetryRejected(k)
  \/ \E k \in Running : ScanStorageSet(k)

Spec == Init /\ [][Next]_vars

\* every step of an async function: the continuation of an await
TaskStep ==
  \E k \in Running :
    \/ InitialTabsGet(k) \/ InitialStorageGet(k) \/ InitialTimeout(k)
    \/ TriggerTabsGet(k) \/ TriggerStorageGet(k) \/ ScanStateTabsGet(k)
    \/ ScanExecuteScript(k) \/ ScanFetch(k) \/ ScanSetRejected(k)
    \/ ScanRetryRejected(k) \/ ScanStorageSet(k)

\* every awaited operation settles and its continuation is run
FairSpec == Spec /\ WF_vars(TaskStep)

(***************************************************************************)
(* Properties.                                                             *)
(***************************************************************************)
\* the suspended calls, one element per call
Calls == UNION {{<<k, i>> : i \in 1..tasks[k]} : k \in Running}
\* the number of scans of tab t in flight that were launched with force
ScansInFlight(t, force) ==
  Cardinality({c \in Calls : InFlight(c[1]) /\ c[1].tab = t /\ c[1].force = force})
Quiescent == tasks = EmptyMap
KeyOf(k) == PageKey(k.tab, k.url)
ScanStep(k) ==
  \/ ScanStateTabsGet(k) \/ ScanExecuteScript(k) \/ ScanFetch(k)
  \/ ScanSetRejected(k) \/ ScanRetryRejected(k) \/ ScanStorageSet(k)

\* C1 (as claimed): two non-forced scans of the same tab are never in flight
\* at the same time, so two unforced triggers launch exactly one scan
C1_SingleFlight == \A t \in Tabs : ScansInFlight(t, FALSE) <= 1

\* C2 (as claimed): once every async call has finished and nothing failed,
\* the page of every open tab whose main-frame navigation completed has a
\* 'complete' entry in session storage
C2_EveryPageScanned ==
  \A t \in DOMAIN tabs :
    (Quiescent /\ ~faulted /\ tabs[t].nav = "completed" /\ Scannable(tabs[t].url))
      => IsComplete(storage, PageKey(t, tabs[t].url))

\* C3 (as claimed): a step of a scan whose tab has been removed changes
\* neither session storage nor the tab's badge
C3_DiscardedAfterClose ==
  [][\A k \in Running :
       (InFlight(k) /\ ~TabOpen(k.tab) /\ ScanStep(k))
         => (storage' = storage /\ badge' = badge)]_vars

\* C4 (as claimed): a non-forced scan that was in flight when a forced rescan
\* of its page was requested does not replace the entry the forced scan
\* stored when it comes to store its own result
C4_ForcedNotOverwritten ==
  [][\A k \in Running :
       (k.stale /\ (ScanFetch(k) \/ ScanSetRejected(k))
          /\ IsComplete(storage, KeyOf(k)) /\ storage[KeyOf(k)].force)
         => /\ IsComplete(storage', KeyOf(k))
            /\ storage'[KeyOf(k)].results = storage[KeyOf(k)].results
            /\ storage'[KeyOf(k)].contentMap = storage[KeyOf(k)].contentMap]_vars

\* C5 (as claimed): the removal listener of tab t leaves t out of
\* scansInProgress and no session-storage entry under a key `t|...`
C5_RemovedPurgesAll ==
  [][\A t \in Tabs :
       OnRemoved(t) => (t \notin scansInProgress' /\ KeysOfTab(storage', t) = {})]_vars

\* C6 (as claimed): when the script injection of a scan fails or yields no
\* result while the tab still shows the scanned page, the page's stored
\* status is afterwards neither 'complete' nor 'scanning', and the step
\* stores no entry
C6_IdleAfterScrapeFailure ==
  [][\A k \in Running :
       (k.pc = "executeScript" /\ TabOpen(k.tab) /\ tabs[k.tab].url = k.url
          /\ ScanExecuteScript(k) /\ tasks' = Remove(tasks, k))
         => /\ storage' = storage
            /\ Has(storage', KeyOf(k)) => storage'[KeyOf(k)].status \notin {"complete", "scanning"}]_vars

\* C7: a tab is in scansInProgress only while a scan of it is in flight, and
\* every tab that is in scansInProgress is eventually removed from it
C7_InProgressOnlyWhileInFlight ==
  \A t \in scansInProgress : ScansInFlight(t, FALSE) + ScansInFlight(t, TRUE) > 0
C7_EventuallyCleared ==
  \A t \in Tabs : (t \in scansInProgress) ~> (t \notin scansInProgress)
C7_Witness ==
  \* a scan of tab 1 was launched and its promise rejected
  /\ faulted /\ Quiescent /\ scansInProgress = {}
  /\ Has(storage, PageKey(1, UrlA)) /\ storage[PageKey(1, UrlA)].status = "scanning"
  /\ badge[1] = ScanningIcon

\* a trigger call is a call of triggerPassiveScan that is not forced
Unforced(k) == k.fn = "triggerPassiveScan" /\ ~k.force
\* no scan is launched by the step: no call enters its scan promise and
\* scansInProgress is not touched
NoLaunch(k) == tasks' = Remove(tasks, k) /\ scansInProgress' = scansInProgress
\* the non-forced trigger listeners of tab t
UnforcedTrigger(t) ==
  \/ OnActivated(t)
  \/ OnCompleted(t, 0)
  \/ \E u \in Urls : OnHistoryStateUpdated(t, u, 0)

C10_CompleteRevertedOnlyByForce ==
  [][\A key \in DOMAIN storage :
       (IsComplete(storage, key) /\ Has(storage', key) /\ storage'[key] = Scanning)
         => \E k \in Running : k.force /\ ScanStateTabsGet(k)]_vars

\* C11 (as claimed): when the retry of a quota-rejected write is rejected too,
\* the failure is dropped inside runPassiveScan, which therefore goes on to
\* updateActionUI(tabId, findings.length) as after any other outcome of the
\* write
C11_RetryFailureDropped ==
  [][\A k \in Running :
       ScanRetryRejected(k) => badge'[k.tab] = ActionUI(k.count)]_vars

\* C23: a navigation completion or a history-state update of a subframe
\* (frameId # 0) launches no call of triggerPassiveScan and changes neither
\* session storage, nor the tab's badge, nor scansInProgress
C23_SubframeIgnored ==
  [][\A t \in Tabs, u \in Urls, f \in FrameIds \ {0} :
       (OnCompleted(t, f) \/ OnHistoryStateUpdated(t, u, f))
         => /\ tasks' = tasks /\ storage' = storage /\ badge' = badge
            /\ scansInProgress' = scansInProgress /\ scannedPages' = scannedPages]_vars
C23_Witness ==
  \* one event was delivered to the listeners and left no trace: it was a
  \* subframe's, every other event starts a call or changes the tab
  /\ events = 1 /\ tasks = EmptyMap /\ storage = EmptyMap
  /\ tabs = [t \in Tabs |-> [url |-> UrlA, nav |-> "idle"]]
  /\ badge = [t \in Tabs |-> DefaultIcon]

\* C28 (as claimed): while a scan launched by triggerPassiveScan for a tab is
\* running, scansInProgress contains the tab (stated for the tabs that are
\* still open)
C28_InProgressWhileRunning ==
  \A k \in Running : (InFlight(k) /\ TabOpen(k.tab)) => k.tab \in scansInProgress

\* C29 (as claimed): a scan writes to session storage only under the key
\* of the page that was scraped, and when it publishes its count to the
\* badge of a tab that is open, the tab shows the page that was scraped
C29_AttributedToScrapedPage ==
  [][\A k \in Running :
       /\ (k.pc \in {"fetch", "setRejected"} /\ (ScanFetch(k) \/ ScanSetRejected(k)))
            => \A key \in DOMAIN storage' :
                 (key \notin DOMAIN storage \/ storage'[key] # storage[key])
                   => key = PageKey(k.tab, k.scraped)
       /\ (k.pc \in {"storageSet", "setRejected"} /\ TabOpen(k.tab)
             /\ (ScanStorageSet(k) \/ ScanSetRejected(k)) /\ badge'[k.tab] # badge[k.tab])
            => tabs[k.tab].url = k.scraped]_vars

(***************************************************************************)
(* The overlay's result cache (src/src/overlay/overlay.js, getCachedResults *)
(* and setCachedResults).  A Map of findings is the sequence of its entries *)
(* in insertion order; an entry is [key, bytes], bytes being the length of  *)
(* its JSON text.  A key is the text of a finding: kind "index" when the    *)
(* text is a canonical array index (such as "8080"), whose number is id,    *)
(* and kind "name" otherwise.  A contentMap is the sequence of its          *)
(* [source, bytes] properties.                                              *)
(***************************************************************************)
CACHE_DURATION_MS == 2 * 60 * 60 * 1000
MAX_CACHE_SIZE_BYTES == 30 * 1024 * 1024

MaxDrift == 2       \* clock steps of 1 ms within one period
MaxPeriods == 2     \* clock steps of CACHE_DURATION_MS - 1 ms

Categories == {"Endpoints", "Potential Secrets"}
IndexKey(n) == [kind |-> "index", id |-> n]
NameKey(n) == [kind |-> "name", id |-> n]
\* an entry of a Map of findings: the value, the size of its text and the
\* places of its occurrences, in the order of the array
MapEntry(key, bytes, occurrences) == [key |-> key, bytes |-> bytes, occurrences |-> occurrences]

\* the results a scan may hand over: per category a Map
EndpointMaps == {<<>>, <<MapEntry(NameKey(1), 50, <<12>>)>>}
SecretMaps ==
  {<<>>,
   <<MapEntry(NameKey(2), 50, <<40, 7>>), MapEntry(IndexKey(8080), 50, <<3>>)>>,
   <<MapEntry(IndexKey(8080), 50, <<9, 9, 2>>), MapEntry(IndexKey(443), 50, <<5>>)>>,
   <<MapEntry(NameKey(3), MAX_CACHE_SIZE_BYTES, <<1>>)>>}
ScanResults ==
  {[c \in Categories |-> IF c = "Endpoints" THEN e ELSE m] : e \in EndpointMaps, m \in SecretMaps}
\* the text of the cache entry around the results and the contentMap:
\* {"results":{},"contentMap":{},"timestamp":1700000000000}
SkeletonBytes == 56
ContentMaps ==
  {<<>>,
   <<[source |-> "Main HTML Document", bytes |-> 200]>>,
   <<[source |-> "Main HTML Document", bytes |-> MAX_CACHE_SIZE_BYTES - SkeletonBytes - 100]>>,
   <<[source |-> "Main HTML Document", bytes |-> MAX_CACHE_SIZE_BYTES - SkeletonBytes - 99]>>}

RECURSIVE SumBytes(_)
SumBytes(seq) == IF seq = <<>> THEN 0 ELSE Head(seq).bytes + SumBytes(Tail(seq))

\* the properties of an object are enumerated with the array indices first,
\* in ascending order, then the other names in the order they were created
RECURSIVE InsertIndex(_, _)
InsertIndex(sorted, e) ==
  IF sorted = <<>> THEN <<e>>
  ELSE IF e.key.id < Head(sorted).key.id THEN <<e>> \o sorted
  ELSE <<Head(sorted)>> \o InsertIndex(Tail(sorted), e)
RECURSIVE SortIndices(_)
SortIndices(seq) ==
  IF seq = <<>> THEN <<>> ELSE InsertIndex(SortIndices(Tail(seq)), Head(seq))
IsIndex(e) == e.key.kind = "index"
IsName(e) == e.key.kind = "name"
\* faulty variant: the properties that are array indices are left out
FromEntriesNames(map) == SelectSeq(map, IsName)
\* Object.fromEntries(map): the object, as the sequence of its properties
FromEntries(map) == SortIndices(SelectSeq(map, IsIndex)) \o SelectSeq(map, IsName)
\* new Map(Object.entries(object))
MapOfEntries(object) == object

\* serializableResults
Serializable(scanResults) == [c \in DOMAIN scanResults |-> FromEntries(scanResults[c])]

\* the bytes of the findings of the categories cs
RECURSIVE ResultsBytes(_, _)
ResultsBytes(scanResults, cs) ==
  IF cs = {} THEN 0
  ELSE LET c == CHOOSE x \in cs : TRUE IN
       SumBytes(scanResults[c]) + ResultsBytes(scanResults, cs \ {c})

\* new Blob([JSON.stringify(dataToCache)]).size
JsonBytes(data) ==
  SkeletonBytes + ResultsBytes(data.results, DOMAIN data.results) + SumBytes(data.contentMap)

\* faulty variant: the size is compared in KiB, as the warning prints it
ExceedsLimitInKiB(estimatedSize) == estimatedSize \div 1024 > MAX_CACHE_SIZE_BYTES
\* estimatedSize > MAX_CACHE_SIZE_BYTES
ExceedsLimit(estimatedSize) == estimatedSize > MAX_CACHE_SIZE_BYTES

\* dataToCache as setCachedResults passes it to chrome.storage.local.set
DataToCache(scanResults, contentMap, time) ==
  LET full == [results |-> Serializable(scanResults), contentMap |-> contentMap, timestamp |-> time] IN
  IF ExceedsLimit(JsonBytes(full)) THEN [full EXCEPT !.contentMap = <<>>] ELSE full

\* setCachedResults(results, contentMap): the write is stored, or rejects
\* and the rejection is caught
SetCachedResults(scanResults, contentMap) ==
  /\ handed' = [results |-> scanResults, contentMap |-> contentMap,
                 data |-> DataToCache(scanResults, contentMap, now)]
  /\ \E stored \in BOOLEAN : local' = IF stored THEN handed'.data ELSE local
  /\ returned' = Undefined
  /\ UNCHANGED <<now, backgroundVars, partVars, scanVars, fetchVars>>

\* faulty variant: the duration is taken for 2 minutes
ExpiredAfterMinutes(cacheAge) == cacheAge > 2 * 60 * 1000
\* cacheAge > CACHE_DURATION_MS
Expired(cacheAge) == cacheAge > CACHE_DURATION_MS

\* what getCachedResults() returns when chrome.storage.local holds cachedData
\* and the clock shows time
CachedResults(cachedData, time) ==
  IF cachedData = Undefined THEN Null
  ELSE IF cachedData.timestamp = 0 THEN Null
  ELSE IF Expired(time - cachedData.timestamp) THEN Null
  ELSE [cachedData EXCEPT !.results = [c \in DOMAIN cachedData.results |->
                                         MapOfEntries(cachedData.results[c])]]

GetCachedResults ==
  /\ returned' = CachedResults(local, now)
  /\ handed' = Undefined
  /\ UNCHANGED <<now, local, backgroundVars, partVars, scanVars, fetchVars>>

\* time passes
Tick(ms) ==
  /\ IF ms = 1 THEN (now - 1) % (CACHE_DURATION_MS - 1) < MaxDrift
     ELSE (now - 1) \div (CACHE_DURATION_MS - 1) < MaxPeriods
  /\ now' = now + ms
  /\ UNCHANGED <<local, handed, returned, backgroundVars, partVars, scanVars, fetchVars>>

CacheInit == BackgroundInit /\ OverlayIdle

CacheNext ==
  \/ \E scanResults \in ScanResults, contentMap \in ContentMaps : SetCachedResults(scanResults, contentMap)
  \/ GetCachedResults
  \/ \E ms \in {1, CACHE_DURATION_MS - 1} : Tick(ms)

CacheSpec == CacheInit /\ [][CacheNext]_vars

\* the findings of a Map or of an object's properties, whatever their order
Findings(seq) == {seq[i] : i \in 1..Len(seq)}

\* C12: a read at most CACHE_DURATION_MS - 1 ms after the stored entry was
\* written returns that entry: its timestamp, its contentMap and, per
\* category, its findings; a read CACHE_DURATION_MS + 1 ms or more after it
\* returns null; the read leaves the stored entry alone, so that expiry is
\* decided by the comparison of the stored timestamp with the clock only
C12_CacheTtl ==
  [][(GetCachedResults /\ local # Undefined)
       => /\ local' = local
          /\ now <= local.timestamp + CACHE_DURATION_MS - 1
               => /\ returned' # Null
                  /\ returned'.timestamp = local.timestamp
                  /\ returned'.contentMap = local.contentMap
                  /\ \A c \in Categories :
                       Findings(returned'.results[c]) = Findings(local.results[c])
          /\ now >= local.timestamp + CACHE_DURATION_MS + 1 => returned' = Null]_vars
C12_Witness ==
  \* the entry was read 1 ms after its time to live had passed
  /\ local # Undefined /\ returned = Null
  /\ now = local.timestamp + CACHE_DURATION_MS + 1

\* C13: the entry setCachedResults passes to storage has an estimated size
\* of at most MAX_CACHE_SIZE_BYTES or an empty contentMap, and holds every
\* finding of every category of the results
C13_CacheEntryBounded ==
  handed # Undefined
    => /\ JsonBytes(handed.data) <= MAX_CACHE_SIZE_BYTES \/ handed.data.contentMap = <<>>
       /\ DOMAIN handed.data.results = DOMAIN handed.results
       /\ \A c \in DOMAIN handed.results :
            Findings(handed.data.results[c]) = Findings(handed.results[c])
C13_Witness ==
  \* an entry of more than MAX_CACHE_SIZE_BYTES was stored without its
  \* contents and with its findings
  /\ handed # Undefined /\ local = handed.data
  /\ handed.contentMap # <<>> /\ handed.data.contentMap = <<>>
  /\ \E c \in Categories : handed.data.results[c] # <<>>

(***************************************************************************)
(* The scan engines: processScriptsAsync of the overlay                     *)
(* (src/src/overlay/overlay.js) with the patterns of getPatterns            *)
(* (src/src/utils/patterns.js), and the rule loop of runPassiveScan         *)
(* (src/src/background.js).  Text is a sequence of characters.  A regular   *)
(* expression is not executed: a match is given by its groups, as the       *)
(* shape of the pattern lets String.prototype.matchAll deliver them, a      *)
(* group that took no part in the match being undefined.                    *)
(***************************************************************************)
MaxMatches == 2     \* matches handed to the engines in one run

Label ==
  [app |-> <<"a", "p", "p">>, api |-> <<"a", "p", "i">>, shop |-> <<"s", "h", "o", "p">>, example |-> <<"e", "x", "a", "m", "p", "l", "e">>,
   notexample |-> <<"n", "o", "t", "e", "x", "a", "m", "p", "l", "e">>, evil |-> <<"e", "v", "i", "l">>, uk |-> <<"u", "k">>,
   co |-> <<"c", "o">>, com |-> <<"c", "o", "m">>, gov |-> <<"g", "o", "v">>, org |-> <<"o", "r", "g">>, net |-> <<"n", "e", "t">>,
   ac |-> <<"a", "c">>, edu |-> <<"e", "d", "u">>]

\* parts.join(sep)
RECURSIVE Join(_, _)
Join(parts, sep) ==
  IF parts = <<>> THEN <<>>
  ELSE IF Len(parts) = 1 THEN parts[1]
  ELSE parts[1] \o sep \o Join(Tail(parts), sep)
Dotted(labels) == Join(labels, <<".">>)

\* str.split(sep), sep one character
RECURSIVE Split(_, _)
Split(str, sep) ==
  IF \E i \in 1..Len(str) : str[i] = sep
  THEN LET i == CHOOSE j \in 1..Len(str) : str[j] = sep /\ \A h \in 1..(j - 1) : str[h] # sep IN
       <<SubSeq(str, 1, i - 1)>> \o Split(SubSeq(str, i + 1, Len(str)), sep)
  ELSE <<str>>

\* str.endsWith(suffix)
EndsWith(str, suffix) ==
  Len(str) >= Len(suffix) /\ SubSeq(str, Len(str) - Len(suffix) + 1, Len(str)) = suffix
\* parts.slice(-n)
SliceLast(parts, n) == SubSeq(parts, IF Len(parts) > n THEN Len(parts) - n + 1 ELSE 1, Len(parts))

\* str.trim()
Whitespace == {" ", "\n", "\t"}
RECURSIVE TrimStart(_)
TrimStart(str) == IF str # <<>> /\ Head(str) \in Whitespace THEN TrimStart(Tail(str)) ELSE str
RECURSIVE TrimEnd(_)
TrimEnd(str) ==
  IF str # <<>> /\ str[Len(str)] \in Whitespace THEN TrimEnd(SubSeq(str, 1, Len(str) - 1)) ELSE str
Trim(str) == TrimEnd(TrimStart(str))

slds == {Label.co, Label.com, Label.gov, Label.org, Label.net, Label.ac, Label.edu}

\* faulty variant: the base domain is always the last two labels
GetDomainInfoLastTwo(hostname) ==
  LET parts == Split(hostname, ".") IN
  [currentHostname |-> hostname,
   baseDomain |-> IF Len(parts) <= 2 THEN hostname ELSE Dotted(SliceLast(parts, 2))]

\* getDomainInfo(), hostname being window.location.hostname
GetDomainInfo(hostname) ==
  LET parts == Split(hostname, ".") IN
  IF Len(parts) <= 2 THEN [currentHostname |-> hostname, baseDomain |-> hostname]
  ELSE [currentHostname |-> hostname,
        baseDomain |-> IF parts[Len(parts) - 1] \in slds
                       THEN Dotted(SliceLast(parts, 3))
                       ELSE Dotted(SliceLast(parts, 2))]

IsValidSubdomain(domain, info) ==
  \/ domain = info.currentHostname
  \/ EndsWith(domain, <<".">> \o info.currentHostname)
  \/ domain = info.baseDomain
  \/ EndsWith(domain, <<".">> \o info.baseDomain)

\* 1000 * log2(n) for n = 1..24, rounded
Log2Milli == <<0, 1000, 1585, 2000, 2322, 2585, 2807, 3000, 3170, 3322, 3459, 3585, 3700, 3807, 3907, 4000, 4087, 4170, 4248, 4322, 4392, 4459, 4524, 4585>>

\* the Shannon entropy of str in bits, times 1000 * Len(str):
\* -sum p(c) log2 p(c) with p(c) = count(c) / Len(str)
RECURSIVE SumCountLog(_, _)
SumCountLog(str, chars) ==
  IF chars = {} THEN 0
  ELSE LET c == CHOOSE x \in chars : TRUE
           count == Cardinality({i \in 1..Len(str) : str[i] = c}) IN
       count * Log2Milli[count] + SumCountLog(str, chars \ {c})
ShannonEntropy(str) ==
  IF str = <<>> THEN 0
  ELSE Len(str) * Log2Milli[Len(str)] - SumCountLog(str, {str[i] : i \in 1..Len(str)})

\* faulty variant: the minimum itself is rejected
IsValidEntropyAbove(secret, ruleEntropy) == ShannonEntropy(secret) > ruleEntropy * Len(secret)
\* shannonEntropy(secret) >= ruleEntropy, ruleEntropy in thousandths of a bit
IsValidEntropy(secret, ruleEntropy) == ShannonEntropy(secret) >= ruleEntropy * Len(secret)

\* faulty variant: the pattern is not anchored at the end
IsValidEndpointPrefix(endpoint) == ~(endpoint # <<>> /\ Head(endpoint) = "/")
\* !/^\/+$/.test(endpoint)
IsValidEndpoint(endpoint) ==
  ~(endpoint # <<>> /\ \A i \in 1..Len(endpoint) : endpoint[i] = "/")

\* the rules of the catalog that the model applies (src/src/content/rules.js);
\* entropy in thousandths of a bit
secretRules ==
  <<[id |-> "adafruit-api-key", group |-> 1],
    [id |-> "adobe-client-id", group |-> 1, entropy |-> 2000],
    [id |-> "aws-access-token", group |-> 1, entropy |-> 3000],
    [id |-> "sentry-org-token", group |-> 0, entropy |-> 4500]>>

\* the user's "interesting parameters"
ParameterLists ==
  {<<>>, <<<<"i", "d">>>>, <<<<"i", "d">>, <<"i", "d", "(">>>>, <<<<" ">>, <<"i", "d", " ">>>>}

\* new RegExp(source) throws a SyntaxError for a source whose parentheses
\* do not balance
RECURSIVE Balanced(_, _)
Balanced(source, depth) ==
  IF source = <<>> THEN depth = 0
  ELSE IF Head(source) = "(" THEN Balanced(Tail(source), depth + 1)
  ELSE IF Head(source) = ")" THEN depth > 0 /\ Balanced(Tail(source), depth - 1)
  ELSE Balanced(Tail(source), depth)
Compiles(parameters) == parameters = <<>> \/ Balanced(Join(parameters, <<"|">>), 0)

CategoryNames ==
  {"Subdomains", "Endpoints", "Source Maps", "JS Libraries", "Potential DOM XSS Sinks",
   "Interesting Parameters", "Potential Secrets"}

\* faulty variant: the pattern is built from an empty list too
ParameterRegexAlways(parameters) == TRUE
\* parameters && parameters.length > 0 ? new RegExp(...) : null
ParameterRegex(parameters) == parameters # <<>>

\* what getPatterns(parameters) returns when every RegExp compiles: per
\* category its rules; regex is FALSE for the null pattern
Rule(regex, group) == [regex |-> regex, group |-> group, ruleId |-> Undefined, ruleEntropy |-> 0]
GetPatterns(parameters) ==
  [name \in CategoryNames |->
     CASE name = "Subdomains" -> <<Rule(TRUE, 1)>>
       [] name = "Endpoints" -> <<Rule(TRUE, 2)>>
       [] name = "Source Maps" -> <<Rule(TRUE, 1)>>
       [] name = "JS Libraries" -> <<Rule(TRUE, 0)>>
       [] name = "Potential DOM XSS Sinks" -> <<Rule(TRUE, 1)>>
       [] name = "Interesting Parameters" -> <<Rule(ParameterRegex(parameters), 1)>>
       [] name = "Potential Secrets" ->
            [i \in 1..Len(secretRules) |->
               [regex |-> TRUE, group |-> secretRules[i].group, ruleId |-> secretRules[i].id,
                ruleEntropy |-> IF "entropy" \in DOMAIN secretRules[i]
                                THEN secretRules[i].entropy ELSE 0]]]

\* a match: groups[1] is match[0], groups[g + 1] is match[g]
Text(chars) == [text |-> chars]
Match(index, groups) == [index |-> index, groups |-> groups]
Quoted(path) == <<"'">> \o path \o <<"'">>

Hostnames ==
  {<<Label.app, Label.example, Label.com>>, <<Label.example, Label.com>>,
   <<Label.shop, Label.example, Label.co, Label.uk>>}
Candidates ==
  {Dotted(<<Label.api, Label.example, Label.com>>), Dotted(<<Label.example, Label.com>>),
   Dotted(<<Label.evil, Label.com>>), Dotted(<<Label.notexample, Label.com>>),
   Dotted(<<Label.example, Label.co, Label.uk>>), Dotted(<<Label.co, Label.uk>>)}
\* '///' is a value the Endpoints pattern of today does not capture
Paths == {<<"/">>, <<"/", "/", "/">>, <<"/", "a", "p", "i", "/", "v", "1", "/", "u", "s", "e", "r", "s">>}
SecretTexts ==
  [low |-> <<"a", "a", "b", "b">>, high |-> <<"a", "b", "c", "d">>, key |-> <<"A", "S", "I", "B", "C", "D", "E", "F">>,
   token |-> <<"a", "b", "c", "d", "e", "f", "g", "h", "i", "j", "k", "l", "m", "n", "o", "p", "q", "r", "s", "t", "u", "v", "a">>, assigned |-> <<"k", "e", "y", "=", "a", "a", "b", "b">>]

\* the matches matchAll may deliver for rule number r of category name
MatchesOf(name, r) ==
  CASE name = "Subdomains" -> {Match(8, <<Text(<<"/", "/">> \o c), Text(c)>>) : c \in Candidates}
    [] name = "Endpoints" -> {Match(3, <<Text(Quoted(p)), Text(<<"'">>), Text(p)>>) : p \in Paths}
    [] name = "Potential DOM XSS Sinks" ->
         {Match(5, <<Text(<<".", "i", "n", "n", "e", "r", "H", "T", "M", "L", " ", "=">>), Text(<<"i", "n", "n", "e", "r", "H", "T", "M", "L">>), Undefined, Undefined>>),
          Match(9, <<Text(<<"e", "v", "a", "l", "(">>), Undefined, Text(<<>>), Text(<<"e", "v", "a", "l">>)>>)}
    [] name = "Interesting Parameters" ->
         \* the matches of the parameters 'id', ' ' and 'id '
         {Match(4, <<Text(<<"?", "i", "d", "=">>), Text(<<"i", "d">>), Text(<<"i", "d">>)>>),
          Match(6, <<Text(<<"?", " ", "=">>), Text(<<" ">>), Text(<<" ">>)>>),
          Match(9, <<Text(<<"&", "i", "d", " ", "=">>), Text(<<"i", "d", " ">>), Text(<<"i", "d", " ">>)>>)}
    [] name = "Potential Secrets" ->
         (CASE r = 1 -> {Match(2, <<Text(SecretTexts.assigned), Text(SecretTexts.low)>>)}
           [] r = 2 -> {Match(2, <<Text(SecretTexts.assigned), Text(SecretTexts.low)>>),
                        Match(6, <<Text(<<"k", "=">> \o SecretTexts.high), Text(SecretTexts.high)>>)}
           [] r = 3 -> {Match(7, <<Text(SecretTexts.key), Text(SecretTexts.key)>>)}
           [] r = 4 -> {Match(1, <<Text(SecretTexts.token \o <<" ">>)>>)}
           [] OTHER -> {})
    [] OTHER -> {}
Sources == {<<"Inline Script #1">>, <<"Main HTML Document">>}

\* faulty variant: the group is taken as it was captured
RawGroup(match, rule) ==
  LET g == match.groups[rule.group + 1] IN
  IF g = Undefined THEN <<>> ELSE g.text

\* let finding = match[group]?.trim(); an undefined group gives undefined,
\* which the model writes as the empty text: both are dropped by
\* if (!finding) return
FindingOf(match, rule) ==
  LET g == match.groups[rule.group + 1] IN
  IF g = Undefined THEN <<>> ELSE Trim(g.text)

\* validationMap[name] && !validationMap[name]() does not hold
Validated(name, finding, rule, hostname) ==
  CASE name = "Subdomains" -> IsValidSubdomain(finding, GetDomainInfo(hostname))
    [] name = "Potential Secrets" -> IsValidEntropy(finding, rule.ruleEntropy)
    [] name = "Endpoints" -> IsValidEndpoint(finding)
    [] OTHER -> TRUE

\* faulty variant: the occurrence list is created anew for every match
PushOccurrenceAnew(map, finding, occurrence) ==
  IF \E i \in 1..Len(map) : map[i].finding = finding
  THEN [i \in 1..Len(map) |-> IF map[i].finding = finding
                               THEN [map[i] EXCEPT !.occurrences = <<occurrence>>] ELSE map[i]]
  ELSE Append(map, [finding |-> finding, occurrences |-> <<occurrence>>])

\* if (!results[name].has(finding)) results[name].set(finding, []);
\* results[name].get(finding).push(occurrence)
PushOccurrence(map, finding, occurrence) ==
  IF \E i \in 1..Len(map) : map[i].finding = finding
  THEN [i \in 1..Len(map) |-> IF map[i].finding = finding
                               THEN [map[i] EXCEPT !.occurrences = Append(@, occurrence)]
                               ELSE map[i]]
  ELSE Append(map, [finding |-> finding, occurrences |-> <<occurrence>>])

\* processMatch(match, rule, name, code, source): what it leaves of the
\* results found so far
ProcessMatchIn(found, match, rule, name, source, hostname) ==
  LET finding == FindingOf(match, rule) IN
  IF finding = <<>> \/ ~Validated(name, finding, rule, hostname) THEN found
  ELSE [found EXCEPT ![name] =
          PushOccurrence(@, finding, [source |-> source, ruleId |-> rule.ruleId,
                                      index |-> match.index, secretLength |-> Len(finding)])]
ProcessMatch(match, rule, name, source, hostname) ==
  ProcessMatchIn(results, match, rule, name, source, hostname)

\* performScan's timer callback: getPatterns(parameters) returns the
\* patterns and processScriptsAsync creates a Map per category, or a RegExp
\* constructor throws and the callback ends there
StartScan(parameters) ==
  /\ scan.status = "idle"
  /\ IF Compiles(parameters)
     THEN /\ scan' = [scan EXCEPT !.status = "scanning", !.parameters = parameters,
                                  !.patterns = GetPatterns(parameters)]
          /\ results' = [name \in CategoryNames |-> <<>>]
     ELSE /\ scan' = [scan EXCEPT !.status = "failed", !.parameters = parameters]
          /\ UNCHANGED results
  /\ UNCHANGED <<findings, log, backgroundVars, partVars, cacheVars, fetchVars>>

\* applyRulesToCode: one match of one rule of one category is processed
ApplyRule(name, r, match, source) ==
  /\ scan.status = "scanning" /\ Len(log) < MaxMatches
  /\ r \in DOMAIN scan.patterns[name] /\ scan.patterns[name][r].regex
  /\ match \in MatchesOf(name, r)
  /\ results' = ProcessMatch(match, scan.patterns[name][r], name, source, scan.hostname)
  /\ log' = Append(log, [engine |-> "overlay", name |-> name, rule |-> scan.patterns[name][r],
                         match |-> match, source |-> source])
  /\ UNCHANGED <<scan, findings, backgroundVars, partVars, cacheVars, fetchVars>>

\* processChunk resolved: the results are cached and rendered
FinishScan ==
  /\ scan.status = "scanning"
  /\ scan' = [scan EXCEPT !.status = "done"]
  /\ UNCHANGED <<results, findings, log, backgroundVars, partVars, cacheVars, fetchVars>>

\* rule.entropy && shannonEntropy(secret) < rule.entropy does not hold
PassiveAccepts(rule, secret) ==
  ~("entropy" \in DOMAIN rule /\ rule.entropy # 0 /\ ~IsValidEntropy(secret, rule.entropy))

\* runPassiveScan: one match of rule number r of secretRules is handled;
\* const secret = match[rule.group || 0]
PassiveRule(r, match, source) ==
  /\ Len(log) < MaxMatches
  /\ match \in MatchesOf("Potential Secrets", r)
  /\ LET rule == secretRules[r]
         secret == match.groups[rule.group + 1].text IN
     /\ findings' = IF PassiveAccepts(rule, secret)
                    THEN Append(findings, [id |-> rule.id, secret |-> secret, source |-> source])
                    ELSE findings
     /\ log' = Append(log, [engine |-> "passive", name |-> "Potential Secrets", rule |-> rule,
                            match |-> match, source |-> source])
  /\ UNCHANGED <<scan, results, backgroundVars, partVars, cacheVars, fetchVars>>

\* the overlay was injected into a page of one of the hosts
ScanInit ==
  /\ BackgroundInit /\ CacheIdle /\ FetchIdle /\ PartIdle
  /\ scan \in {[status |-> "idle", labels |-> h, hostname |-> Dotted(h), parameters |-> Undefined,
                 patterns |-> Undefined] : h \in Hostnames}
  /\ results = Undefined /\ findings = <<>> /\ log = <<>>

ScanNext ==
  \/ \E parameters \in ParameterLists : StartScan(parameters)
  \/ \E name \in CategoryNames, r \in 1..Len(secretRules), source \in Sources :
       \E match \in MatchesOf(name, r) : ApplyRule(name, r, match, source)
  \/ FinishScan
  \/ \E r \in 1..Len(secretRules), source \in Sources :
       \E match \in MatchesOf("Potential Secrets", r) : PassiveRule(r, match, source)

ScanSpec == ScanInit /\ [][ScanNext]_vars

\* the matches the overlay's engine was handed
OverlayEntries == {i \in DOMAIN log : log[i].engine = "overlay"}
PassiveEntries == {i \in DOMAIN log : log[i].engine = "passive"}
\* the value under which match i is filed, and whether it was accepted
ValueOf(i) == FindingOf(log[i].match, log[i].rule)
Accepted(i) ==
  ValueOf(i) # <<>> /\ Validated(log[i].name, ValueOf(i), log[i].rule, scan.hostname)
\* match i has an occurrence in the results of its category, under the
\* text of the rule's group if that group took part in the match
Reported(i) ==
  \E j \in DOMAIN results[log[i].name] :
    \E o \in DOMAIN results[log[i].name][j].occurrences :
      LET occurrence == results[log[i].name][j].occurrences[o]
          captured == log[i].match.groups[log[i].rule.group + 1] IN
      /\ captured # Undefined => results[log[i].name][j].finding = Trim(captured.text)
      /\ occurrence.source = log[i].source
      /\ occurrence.index = log[i].match.index
      /\ occurrence.ruleId = log[i].rule.ruleId
\* match i has a finding in the findings of the passive scan
PassiveReported(i) ==
  \E j \in DOMAIN findings :
    /\ findings[j].id = log[i].rule.id
    /\ findings[j].source = log[i].source
    /\ findings[j].secret = log[i].match.groups[log[i].rule.group + 1].text

\* C14: in every category no two findings have the same value, every
\* accepted match is filed under its trimmed value, and the occurrence list
\* of a finding has one entry per accepted match of that value
C14_Deduplicated ==
  results # Undefined
    => \A name \in CategoryNames :
         LET map == results[name]
             matches(v) == {i \in OverlayEntries :
                              log[i].name = name /\ Accepted(i) /\ ValueOf(i) = v} IN
         /\ \A i, j \in DOMAIN map : map[i].finding = map[j].finding => i = j
         /\ \A j \in DOMAIN map :
              Len(map[j].occurrences) = Cardinality(matches(map[j].finding))
         /\ \A i \in OverlayEntries :
              (log[i].name = name /\ Accepted(i))
                => \E j \in DOMAIN map : map[j].finding = ValueOf(i)
C14_Witness ==
  \* one secret found once in each of two sources: one finding, two occurrences
  /\ results # Undefined
  /\ Len(results["Potential Secrets"]) = 1
  /\ Len(results["Potential Secrets"][1].occurrences) = 2
  /\ results["Potential Secrets"][1].occurrences[1].source
       # results["Potential Secrets"][1].occurrences[2].source

\* C15 (as claimed): every match of the Potential DOM XSS Sinks pattern, an
\* assignment to a dangerous property or a call of a dangerous function, has
\* an occurrence in that category
C15_EverySinkReported ==
  \A i \in OverlayEntries : log[i].name = "Potential DOM XSS Sinks" => Reported(i)

\* C16 (as claimed): when the scan is started with a detector whose pattern
\* does not compile, the scan goes on with the detectors of all other
\* categories
C16_DetectorIsolation ==
  [][\A parameters \in ParameterLists :
       StartScan(parameters)
         => /\ scan'.status = "scanning"
            /\ \A name \in CategoryNames \ {"Interesting Parameters"} :
                 scan'.patterns[name] = GetPatterns(<<>>)[name]]_vars

\* C17: a Subdomains candidate is reported iff it equals the page hostname,
\* ends with "." + hostname, equals the base domain or ends with "." + base
\* domain, the base domain being the whole hostname for at most 2 labels,
\* else the last 3 labels when the second-to-last label is one of co, com,
\* gov, org, net, ac, edu, else the last 2 labels
C17_SubdomainScoping ==
  \A i \in OverlayEntries :
    log[i].name = "Subdomains"
      => LET labels == scan.labels
             n == Len(labels)
             hostname == Dotted(labels)
             base == IF n <= 2 THEN hostname
                     ELSE IF labels[n - 1] \in {Label.co, Label.com, Label.gov, Label.org,
                                                Label.net, Label.ac, Label.edu}
                     THEN Dotted(<<labels[n - 2], labels[n - 1], labels[n]>>)
                     ELSE Dotted(<<labels[n - 1], labels[n]>>)
             candidate == log[i].match.groups[2].text IN
         Reported(i) <=> \/ candidate = hostname
                         \/ EndsWith(candidate, <<".">> \o hostname)
                         \/ candidate = base
                         \/ EndsWith(candidate, <<".">> \o base)
C17_Witness ==
  \* on app.example.com, api.example.com was reported and evil.com was not
  /\ scan.hostname = Dotted(<<Label.app, Label.example, Label.com>>)
  /\ \E i, j \in OverlayEntries :
       /\ log[i].name = "Subdomains" /\ log[j].name = "Subdomains"
       /\ log[i].match.groups[2].text = Dotted(<<Label.api, Label.example, Label.com>>)
       /\ log[j].match.groups[2].text = Dotted(<<Label.evil, Label.com>>)
       /\ Reported(i) /\ ~Reported(j)

C19_EndpointRetained ==
  \A i \in OverlayEntries :
    log[i].name = "Endpoints"
      => LET path == log[i].match.groups[3].text IN
         /\ Reported(i) <=> \E c \in 1..Len(path) : path[c] # "/"
         /\ path \in {<<"/">>, <<"/", "/", "/">>} => ~Reported(i)
         /\ path = <<"/", "a", "p", "i", "/", "v", "1", "/", "u", "s", "e", "r", "s">> => Reported(i)
C19_Witness ==
  \* "/" was dropped and "/api/v1/users" was reported
  \E i, j \in OverlayEntries :
    /\ log[i].name = "Endpoints" /\ log[j].name = "Endpoints"
    /\ log[i].match.groups[3].text = <<"/">> /\ ~Reported(i)
    /\ log[j].match.groups[3].text = <<"/", "a", "p", "i", "/", "v", "1", "/", "u", "s", "e", "r", "s">> /\ Reported(j)

\* C25: a scan started with an empty parameter list does not fail, its
\* Interesting Parameters detector has no pattern, no match is handed to
\* that detector and the category stays without finding
C25_EmptyParameters ==
  (scan.status # "idle" /\ scan.parameters = <<>>)
    => /\ scan.status \in {"scanning", "done"}
       /\ \A r \in DOMAIN scan.patterns["Interesting Parameters"] :
            ~scan.patterns["Interesting Parameters"][r].regex
       /\ results["Interesting Parameters"] = <<>>
       /\ \A i \in OverlayEntries : log[i].name # "Interesting Parameters"
C25_Witness ==
  \* such a scan ended with findings of other detectors
  /\ scan.status = "done" /\ scan.parameters = <<>>
  /\ \E name \in CategoryNames : results[name] # <<>>

(***************************************************************************)
(* Gathering the content sources of a page: gatherScripts of the overlay    *)
(* with the FETCH_SCRIPTS handler of the service worker, and the fetches of *)
(* runPassiveScan.  The callbacks of a fetch and the continuation of        *)
(* Promise.all that follows the last of them run without another task in    *)
(* between: one action.                                                     *)
(***************************************************************************)
MaxScripts == 3     \* external scripts of the page

Html == [kind |-> "html", n |-> 0]
InlineScript(i) == [kind |-> "inline", n |-> i]
ExternalScript(i) == [kind |-> "url", n |-> i]
\* the page has one inline script
inlineScripts == <<InlineScript(1)>>

\* a fetch ends with a response that is ok, a response of another status, a
\* response whose text() rejects, or a network error
FetchOutcomes == {"ok", "status", "body", "network"}

\* faulty variant: response.ok is not looked at
FetchedAnyStatus(outcome) == outcome \in {"ok", "status"}
\* the fetch delivers the text of the script
Fetched(outcome) == outcome = "ok"

\* FETCH_SCRIPTS: .then(code => ({ source: url, code })).catch(() => null)
FetchResult(i, outcome) == IF Fetched(outcome) THEN ExternalScript(i) ELSE Null
IsSource(x) == x # Null
\* gatherScripts: [...inlineScripts, ...externalScripts.filter(Boolean), mainHtml]
GatherScripts(outcome) ==
  inlineScripts \o SelectSeq([i \in DOMAIN outcome |-> FetchResult(i, outcome[i])], IsSource)
    \o <<Html>>

\* gatherScripts sends FETCH_SCRIPTS, or runPassiveScan starts its fetches,
\* for a page with n external scripts; Promise.all of no promise resolves
StartFetches(engine, n) ==
  /\ fetches.engine = "none"
  /\ fetches' = [engine |-> engine, outcome |-> [i \in 1..n |-> "pending"],
                 allContentSources |-> <<Html>> \o inlineScripts]
  /\ gathered' = IF n > 0 THEN Undefined
                 ELSE IF engine = "overlay" THEN GatherScripts(<<>>)
                 ELSE fetches'.allContentSources
  /\ UNCHANGED <<backgroundVars, partVars, cacheVars, scanVars>>

\* the fetch of external script i ends; runPassiveScan pushes a fetched
\* script onto allContentSources; after the last fetch the sources are
\* handed on
SettleFetch(i, outcome) ==
  /\ fetches.engine # "none"
  /\ i \in DOMAIN fetches.outcome /\ fetches.outcome[i] = "pending"
  /\ fetches' = [fetches EXCEPT
                   !.outcome[i] = outcome,
                   !.allContentSources =
                      IF fetches.engine = "passive" /\ Fetched(outcome)
                      THEN Append(@, ExternalScript(i)) ELSE @]
  /\ gathered' = IF \E j \in DOMAIN fetches'.outcome : fetches'.outcome[j] = "pending"
                 THEN Undefined
                 ELSE IF fetches.engine = "overlay" THEN GatherScripts(fetches'.outcome)
                 ELSE fetches'.allContentSources
  /\ UNCHANGED <<backgroundVars, partVars, cacheVars, scanVars>>

FetchInit == BackgroundInit /\ OverlayIdle

FetchNext ==
  \/ \E engine \in {"overlay", "passive"}, n \in 0..MaxScripts : StartFetches(engine, n)
  \/ \E i \in 1..MaxScripts, outcome \in FetchOutcomes : SettleFetch(i, outcome)

FetchSpec == FetchInit /\ [][FetchNext]_vars

\* C20: the sources are handed to the scan exactly when every fetch has
\* ended, however it ended, and they are then the HTML and inline sources
\* and the external scripts whose fetch ended ok, each once
C20_FetchIsolation ==
  fetches.engine # "none"
    => /\ gathered # Undefined
            <=> \A i \in DOMAIN fetches.outcome : fetches.outcome[i] # "pending"
       /\ gathered # Undefined
            => /\ {gathered[j] : j \in DOMAIN gathered}
                    = {Html, InlineScript(1)}
                        \cup {ExternalScript(i) : i \in {h \in DOMAIN fetches.outcome :
                                                           fetches.outcome[h] = "ok"}}
               /\ \A j, h \in DOMAIN gathered : gathered[j] = gathered[h] => j = h
C20_Witness ==
  \* one fetch failed on the network, one with a status, one was delivered
  /\ gathered # Undefined /\ fetches.engine = "passive"
  /\ \E i, j, h \in DOMAIN fetches.outcome :
       /\ fetches.outcome[i] = "network" /\ fetches.outcome[j] = "status"
       /\ fetches.outcome[h] = "ok"
       /\ \E g \in DOMAIN gathered : gathered[g] = ExternalScript(h)

(***************************************************************************)
(* Opening the overlay (src/src/overlay/overlay.js, runScanner,            *)
(* createOverlay and performScan).  view.scans counts the scans started    *)
(* and not finished yet.                                                   *)
(***************************************************************************)
MaxScans == 2       \* scans of the overlay running at one time

\* the results and contents a scan of the page may produce
PageResults == {r \in ScanResults : r["Endpoints"] # <<>>}
PageContents == {c \in ContentMaps : SumBytes(c) <= 200}

\* the click on the toolbar button (forceRescan = false) or on the rescan
\* button (forceRescan = true): runScanner removes an overlay that exists
\* and, unless forced, stops there; createOverlay shows what
\* getCachedResults returns and stops, or starts a live scan
RunScanner(forceRescan) ==
  LET cachedData == CachedResults(local, now) IN
  IF view.open /\ ~forceRescan
  THEN /\ view' = [view EXCEPT !.open = FALSE]
       /\ UNCHANGED returned
  ELSE IF ~forceRescan /\ cachedData # Null
  THEN /\ view' = [view EXCEPT !.open = TRUE, !.header = "Cached Scan", !.rendered = cachedData]
       /\ returned' = cachedData
  ELSE /\ view.scans < MaxScans
       /\ view' = [view EXCEPT !.open = TRUE, !.header = "Live Scan", !.scans = @ + 1]
       /\ returned' = IF forceRescan THEN returned ELSE cachedData

\* the overlay is opened or toggled
OpenOverlay(forceRescan) ==
  /\ RunScanner(forceRescan)
  /\ UNCHANGED <<now, local, handed, versionCache, popup, worker, walk, sample, coordinator, decoding, context, reconstruction, backgroundVars, scanVars, fetchVars>>

\* performScan's timer callback after processScriptsAsync resolved:
\* await setCachedResults(results, contentMap); renderResults(results, contentMap)
PerformScanDone(scanResults, contentMap) ==
  /\ view.scans > 0
  /\ handed' = [results |-> scanResults, contentMap |-> contentMap,
                 data |-> DataToCache(scanResults, contentMap, now)]
  /\ \E stored \in BOOLEAN : local' = IF stored THEN handed'.data ELSE local
  /\ view' = [view EXCEPT !.scans = @ - 1,
                          !.rendered = [results |-> scanResults, contentMap |-> contentMap]]
  /\ UNCHANGED <<now, returned, versionCache, popup, worker, walk, sample, coordinator, decoding, context, reconstruction, backgroundVars, scanVars, fetchVars>>

ViewInit == BackgroundInit /\ OverlayIdle

ViewNext ==
  \/ \E forceRescan \in BOOLEAN : OpenOverlay(forceRescan)
  \/ \E scanResults \in PageResults, contentMap \in PageContents :
       PerformScanDone(scanResults, contentMap)
  \/ \E ms \in {1, CACHE_DURATION_MS - 1} : Tick(ms)

ViewSpec == ViewInit /\ [][ViewNext]_vars

\* C21 (as claimed): opening the overlay without force on a page with a
\* non-expired cache entry shows the cached results and starts a new scan
C21_CachedShownWhileScanning ==
  [][(OpenOverlay(FALSE) /\ ~view.open /\ CachedResults(local, now) # Null)
       => /\ view'.open /\ view'.rendered = CachedResults(local, now)
          /\ view'.scans = view.scans + 1]_vars

(***************************************************************************)
(* The popup's version check (src/src/popup/version.js, checkVersion,      *)
(* lines 7-47, and updateUI).  A version is the text of the manifest's     *)
(* version field.                                                          *)
(***************************************************************************)
CACHE_DURATION == 6 * 60 * 60 * 1000

\* chrome.runtime.getManifest().version, and what the remote manifest may hold
CurrentVersion == <<"1", ".", "6", ".", "2">>
RemoteVersions ==
  {<<"1", ".", "6", ".", "2">>, <<"1", ".", "6", ".", "1">>, <<"1", ".", "7">>,
   <<"1", ".", "6", ".", "1", "0">>}

\* Number(part), part a sequence of digits
DigitValue(c) == CHOOSE d \in 0..9 : DigitChar(d) = c
RECURSIVE ToNumber(_, _)
ToNumber(part, n) ==
  IF part = <<>> THEN n ELSE ToNumber(Tail(part), 10 * n + DigitValue(Head(part)))
\* v.split('.').map(Number)
Parts(v) == LET split == Split(v, ".") IN [i \in DOMAIN split |-> ToNumber(split[i], 0)]

\* compareVersions(v1, v2), from part i on
RECURSIVE CompareParts(_, _, _)
CompareParts(parts1, parts2, i) ==
  LET len == IF Len(parts1) > Len(parts2) THEN Len(parts1) ELSE Len(parts2)
      p1 == IF i <= Len(parts1) THEN parts1[i] ELSE 0
      p2 == IF i <= Len(parts2) THEN parts2[i] ELSE 0 IN
  IF i > len THEN 0
  ELSE IF p1 > p2 THEN 1
  ELSE IF p1 < p2 THEN -1
  ELSE CompareParts(parts1, parts2, i + 1)
CompareVersions(v1, v2) == CompareParts(Parts(v1), Parts(v2), 1)

\* a > b of two strings: the comparison of their code units
CodeUnit(c) == IF c = "." THEN 46 ELSE 48 + DigitValue(c)
RECURSIVE StringGreater(_, _)
StringGreater(a, b) ==
  IF a = <<>> THEN FALSE
  ELSE IF b = <<>> THEN TRUE
  ELSE IF CodeUnit(Head(a)) # CodeUnit(Head(b)) THEN CodeUnit(Head(a)) > CodeUnit(Head(b))
  ELSE StringGreater(Tail(a), Tail(b))

\* what fetch(GITHUB_MANIFEST_URL) and response.json() may deliver
Responses ==
  {[kind |-> "rejected"], [kind |-> "notFound"], [kind |-> "notOk"]}
    \cup {[kind |-> "manifest", version |-> v] : v \in RemoteVersions}

\* cache.versionCache && (now - cache.versionCache.timestamp < CACHE_DURATION)
Fresh(cache, time) == cache # Undefined /\ time - cache.timestamp < CACHE_DURATION

\* the popup is opened: checkVersion() runs, response being what the
\* request would deliver
CheckVersion(response) ==
  /\ IF Fresh(versionCache, now)
     THEN \* updateUI(cache.versionCache.latestVersion); return
          /\ popup' = [popup EXCEPT !.requested = FALSE,
                         !.updateAvailable = StringGreater(versionCache.latestVersion, CurrentVersion)]
          /\ UNCHANGED versionCache
     ELSE IF response.kind # "manifest"
     THEN /\ popup' = [popup EXCEPT !.requested = TRUE, !.updateAvailable = FALSE]
          /\ UNCHANGED versionCache
     ELSE IF CompareVersions(response.version, CurrentVersion) > 0
     THEN /\ popup' = [fetched |-> [time |-> now, version |-> response.version],
                       requested |-> TRUE, updateAvailable |-> TRUE]
          /\ UNCHANGED versionCache
     ELSE /\ popup' = [fetched |-> [time |-> now, version |-> response.version],
                       requested |-> TRUE, updateAvailable |-> FALSE]
          /\ versionCache' = [latestVersion |-> response.version, timestamp |-> now]
  /\ UNCHANGED <<view, worker, walk, sample, coordinator, decoding, context, reconstruction, backgroundVars, cacheVars, scanVars, fetchVars>>

\* time passes between two openings of the popup
MaxHours == 2       \* clock steps of CACHE_DURATION - 1 ms
VersionTick(ms) ==
  /\ IF ms = 1 THEN (now - 1) % (CACHE_DURATION - 1) < MaxDrift
     ELSE (now - 1) \div (CACHE_DURATION - 1) < MaxHours
  /\ now' = now + ms
  /\ UNCHANGED <<local, handed, returned, backgroundVars, partVars, scanVars, fetchVars>>

VersionInit == BackgroundInit /\ OverlayIdle

VersionNext ==
  \/ \E response \in Responses : CheckVersion(response)
  \/ \E ms \in {1, CACHE_DURATION - 1} : VersionTick(ms)

VersionSpec == VersionInit /\ [][VersionNext]_vars

\* C22 (as claimed): a popup opening less than CACHE_DURATION after the
\* remote manifest was last fetched makes no request, whatever version
\* that manifest held
C22_NoRequestWithinSixHours ==
  [][\A response \in Responses :
       (CheckVersion(response) /\ popup.fetched # Undefined
          /\ now - popup.fetched.time < CACHE_DURATION)
         => ~popup'.requested]_vars

(***************************************************************************)
(* The offscreen document (src/src/offscreen/offscreen.js): the message    *)
(* listener and performScan.  The code of a content source is undefined,   *)
(* or a text given by its length and by the matches the rules have in it.  *)
(***************************************************************************)
EmptyCode == [length |-> 0, secrets |-> <<>>]
\* a text with a match of aws-access-token, which its entropy lets pass
KeyCode ==
  [length |-> 40, secrets |-> <<[r |-> 3, match |-> Match(7, <<Text(SecretTexts.key), Text(SecretTexts.key)>>)]>>]
\* a text with a match of adobe-client-id, which its entropy rejects
LowCode ==
  [length |-> 30, secrets |-> <<[r |-> 2, match |-> Match(2, <<Text(SecretTexts.assigned), Text(SecretTexts.low)>>)]>>]

\* a text with two matches of aws-access-token, of the same key
TwoKeyCode ==
  [length |-> 60, secrets |-> <<[r |-> 3, match |-> Match(30, <<Text(SecretTexts.key), Text(SecretTexts.key)>>)],
                                [r |-> 3, match |-> Match(7, <<Text(SecretTexts.key), Text(SecretTexts.key)>>)]>>]

\* faulty variant: the matches are taken as the text lists them
AsListed(secrets) == secrets

\* for (const rule of rules) for (const match of content.matchAll(rule.regex)):
\* the matches of a text in the order the rule loop meets them, rule after
\* rule and for one rule by position
RECURSIVE Ordered(_)
Ordered(hits) ==
  IF hits = {} THEN <<>>
  ELSE LET first == CHOOSE h \in hits :
                      \A g \in hits : h.r < g.r \/ (h.r = g.r /\ h.match.index <= g.match.index) IN
       <<first>> \o Ordered(hits \ {first})
RuleMatches(secrets) ==
  IF Len(secrets) <= 1 THEN secrets ELSE Ordered({secrets[i] : i \in DOMAIN secrets})

\* the findings the rule loop pushes for one content source
RECURSIVE MatchFindings(_, _)
MatchFindings(source, hits) ==
  IF hits = <<>> THEN <<>>
  ELSE LET rule == secretRules[Head(hits).r]
           secret == Head(hits).match.groups[rule.group + 1].text IN
       (IF PassiveAccepts(rule, secret)
        THEN <<[id |-> rule.id, secret |-> secret, source |-> source]>> ELSE <<>>)
         \o MatchFindings(source, Tail(hits))
SourceFindings(source, content) == MatchFindings(source, RuleMatches(content.secrets))

\* request.allContentSources
ContentSource(source, content) == [source |-> source, content |-> content]
SourceLists ==
  {<<>>,
   <<ContentSource("HTML Document", KeyCode)>>,
   <<ContentSource("HTML Document", KeyCode), ContentSource("Inline Script #1", LowCode)>>,
   <<ContentSource("HTML Document", EmptyCode), ContentSource("Inline Script #1", KeyCode)>>,
   <<ContentSource("HTML Document", KeyCode), ContentSource("Inline Script #1", Undefined)>>}
\* request.secretRules: per rule of the catalog the flags of its regex as
\* the sender serialised them
RuleLists ==
  {[i \in 1..Len(secretRules) |-> [rule |-> i, flags |-> "g"]],
   [i \in 1..Len(secretRules) |-> [rule |-> i, flags |-> IF i = 2 THEN "gg" ELSE "g"]]}
\* new RegExp(rule.regex.source, rule.regex.flags) does not throw
Deserializes(rules) == \A i \in DOMAIN rules : rules[i].flags \in {"", "g", "gi", "gm"}

\* faulty variant: the catch block logs the error only
SilentError(responses, message) == responses
\* the catch block: sendResponse({ status: 'error', message: error.message })
OnError(responses, message) == Append(responses, [status |-> "error", message |-> message])
\* sendResponse({ status: 'success', data: findings })
OnSuccess(responses, data) == Append(responses, [status |-> "success", data |-> data])

\* performScan from source number w.next on, up to its next await or to the
\* end of the handler; burst counts the sources gone through in this run
Advance(w) ==
  IF w.next > Len(w.sources)
  THEN [w EXCEPT !.pc = "done", !.responses = OnSuccess(@, w.findings), !.burst = 0]
  ELSE IF w.sources[w.next].content = Undefined
  THEN \* content.matchAll: TypeError
       [w EXCEPT !.pc = "done", !.responses = OnError(@, "matchAll"), !.burst = 0]
  ELSE [w EXCEPT !.pc = "timeout", !.next = @ + 1, !.burst = 1,
                 !.findings = @ \o SourceFindings(w.sources[w.next].source, w.sources[w.next].content)]

\* a message of type 'ping'
Ping(id) ==
  /\ worker[id].pc = "none"
  /\ worker' = [worker EXCEPT ![id].pc = "done", ![id].type = "ping",
                              ![id].responses = Append(@, [status |-> "ready"])]
  /\ UNCHANGED <<view, versionCache, popup, walk, sample, coordinator, decoding, context, reconstruction, backgroundVars, cacheVars, scanVars, fetchVars>>

\* a message of type 'scanContent': the rules are deserialised and
\* performScan runs up to its first await
ScanContent(id, rules, sources) ==
  /\ worker[id].pc = "none"
  /\ LET w == [worker[id] EXCEPT !.type = "scanContent", !.rules = rules, !.sources = sources, !.next = 1] IN
     worker' = [worker EXCEPT ![id] =
                  IF Deserializes(rules) THEN Advance(w)
                  ELSE [w EXCEPT !.pc = "done", !.responses = OnError(@, "flags")]]
  /\ UNCHANGED <<view, versionCache, popup, walk, sample, coordinator, decoding, context, reconstruction, backgroundVars, cacheVars, scanVars, fetchVars>>

\* await new Promise(resolve => setTimeout(resolve, 0)) resolved
ScanTimeout(id) ==
  /\ worker[id].pc = "timeout"
  /\ worker' = [worker EXCEPT ![id] = Advance(worker[id])]
  /\ UNCHANGED <<view, versionCache, popup, walk, sample, coordinator, decoding, context, reconstruction, backgroundVars, cacheVars, scanVars, fetchVars>>

WorkerInit == BackgroundInit /\ OverlayIdle

WorkerNext ==
  \/ \E id \in 1..MaxRequests : Ping(id)
  \/ \E id \in 1..MaxRequests, rules \in RuleLists, sources \in SourceLists :
       ScanContent(id, rules, sources)
  \/ \E id \in 1..MaxRequests : ScanTimeout(id)

WorkerSpec == WorkerInit /\ [][WorkerNext]_vars
\* every timer of the document fires
FairWorkerSpec == WorkerSpec /\ WF_vars(\E id \in 1..MaxRequests : ScanTimeout(id))

\* the findings of a whole list of content sources
RECURSIVE AllFindings(_)
AllFindings(sources) ==
  IF sources = <<>> THEN <<>>
  ELSE SourceFindings(Head(sources).source, Head(sources).content) \o AllFindings(Tail(sources))
Throws(w) == ~Deserializes(w.rules) \/ \E i \in DOMAIN w.sources : w.sources[i].content = Undefined
ScanRequests == {id \in 1..MaxRequests : worker[id].type = "scanContent"}

\* C24: a scanContent request never has more than one response; the
\* response is 'success' with the findings of all its content sources when
\* nothing threw and 'error' with a message when deserialising or scanning
\* threw; and every request is answered in the end
C24_AnsweredOnce ==
  /\ [](\A id \in ScanRequests :
          /\ Len(worker[id].responses) <= 1
          /\ \A i \in DOMAIN worker[id].responses :
               IF Throws(worker[id])
               THEN worker[id].responses[i].status = "error"
               ELSE /\ worker[id].responses[i].status = "success"
                    /\ worker[id].responses[i].data = AllFindings(worker[id].sources))
  /\ \A id \in 1..MaxRequests :
       (id \in ScanRequests) ~> (Len(worker[id].responses) = 1)
C24_Witness ==
  \* one request was answered with a finding, the other with an error
  \* raised after the first await of the scan
  /\ ScanRequests = 1..MaxRequests
  /\ worker[1].responses # <<>> /\ worker[1].responses[1].status = "success"
  /\ worker[1].responses[1].data # <<>>
  /\ worker[2].responses # <<>> /\ worker[2].responses[1].status = "error"
  /\ worker[2].next = 2

(***************************************************************************)
(* The pass of an engine over the content sources of a page:               *)
(* processScriptsAsync of the overlay (src/src/overlay/overlay.js,         *)
(* processSingleScript and processChunk) and the source loop of            *)
(* runPassiveScan (src/src/background.js).  The texts of the model hold no *)
(* escape sequence, so that decodeText leaves them as they are.            *)
(***************************************************************************)
ChunkSize == 5
MAX_CONTENT_SIZE_BYTES == 4 * 1024 * 1024

\* the scripts gathered from a page: up to MaxSources sources of any code,
\* and a page of more sources than one chunk holds
MaxSources == 3
SourceName(i) ==
  CASE i = 1 -> "Inline Script #1" [] i = 2 -> "Inline Script #2" [] i = 3 -> "Inline Script #3"
    [] i = 4 -> "Inline Script #4" [] OTHER -> "Main HTML Document"
Codes == {Undefined, EmptyCode, KeyCode, LowCode, TwoKeyCode}
ScriptLists ==
  UNION {{[i \in 1..n |-> ContentSource(SourceName(i), code[i])] : code \in [1..n -> Codes]} :
           n \in 0..MaxSources} \cup
  {<<ContentSource("Inline Script #1", KeyCode), ContentSource("Inline Script #2", Undefined),
     ContentSource("Inline Script #3", EmptyCode), ContentSource("Inline Script #4", LowCode),
     ContentSource("Inline Script #5", EmptyCode), ContentSource("Inline Script #6", EmptyCode),
     ContentSource("Main HTML Document", KeyCode)>>}

\* faulty variant: only a missing code is skipped
FalsyWhenUndefined(code) == code = Undefined
\* !code
Falsy(code) == code = Undefined \/ code.length = 0

\* processSingleScript(script, index): what it leaves of the results and of
\* the contentMap
SecretPatterns == GetPatterns(<<>>)["Potential Secrets"]
\* applyRulesToCode(code, source): processMatch for every match of every
\* rule; the texts of the model have matches of the secret rules only
RECURSIVE ApplyRulesToCode(_, _, _)
ApplyRulesToCode(found, hits, source) ==
  IF hits = <<>> THEN found
  ELSE ApplyRulesToCode(ProcessMatchIn(found, Head(hits).match, SecretPatterns[Head(hits).r],
                                       "Potential Secrets", <<source>>, <<>>),
                        Tail(hits), source)
SingleScriptResults(found, script) ==
  IF Falsy(script.content) THEN found
  ELSE ApplyRulesToCode(found, RuleMatches(script.content.secrets), script.source)
SingleScriptMap(contentMap, script) ==
  IF Falsy(script.content) THEN contentMap ELSE Append(contentMap, script.source)

\* the for loop of processChunk over scripts[from..to]
RECURSIVE ChunkResults(_, _, _, _)
ChunkResults(found, scripts, from, to) ==
  IF from > to THEN found
  ELSE ChunkResults(SingleScriptResults(found, scripts[from]), scripts, from + 1, to)
RECURSIVE ChunkMap(_, _, _, _)
ChunkMap(contentMap, scripts, from, to) ==
  IF from > to THEN contentMap
  ELSE ChunkMap(SingleScriptMap(contentMap, scripts[from]), scripts, from + 1, to)

\* faulty variant: the chunk runs to the end of the list
EndOfList(startIndex, length) == length
\* Math.min(startIndex + 5, scripts.length)
EndIndex(startIndex, length) ==
  IF startIndex + ChunkSize < length THEN startIndex + ChunkSize ELSE length

\* faulty variant: the promise is resolved after the first chunk
NothingRemains(endIndex, length) == FALSE
\* if (endIndex < scripts.length)
Remains(endIndex, length) == endIndex < length

\* processChunk(startIndex), startIndex = walk.next - 1 counted from 0;
\* burst counts the sources handed to processSingleScript in this run and
\* order lists them, numbered from 1, as they were handed over
ProcessChunkFrom(w, found) ==
  LET end == EndIndex(w.next - 1, Len(w.scripts)) IN
  /\ results' = ChunkResults(found, w.scripts, w.next, end)
  /\ walk' = [w EXCEPT !.contentMap = ChunkMap(@, w.scripts, w.next, end), !.next = end + 1,
                       !.burst = end - (w.next - 1),
                       !.order = @ \o [i \in 1..(end - (w.next - 1)) |-> w.next - 1 + i],
                       !.status = IF Remains(end, Len(w.scripts)) THEN "timeout" ELSE "done"]

\* processScriptsAsync(scripts, patterns, onProgress) up to its first timer
ProcessScriptsAsync(scripts) ==
  /\ walk.status = "idle"
  /\ ProcessChunkFrom([walk EXCEPT !.engine = "overlay", !.scripts = scripts, !.next = 1],
                      [name \in CategoryNames |-> <<>>])
  /\ UNCHANGED <<scan, findings, log, view, versionCache, popup, worker, sample, coordinator, decoding, context, reconstruction, backgroundVars, cacheVars, fetchVars>>

\* setTimeout(() => processChunk(endIndex).then(resolve), 0) fired
ProcessChunk ==
  /\ walk.status = "timeout"
  /\ ProcessChunkFrom(walk, results)
  /\ UNCHANGED <<scan, findings, log, view, versionCache, popup, worker, sample, coordinator, decoding, context, reconstruction, backgroundVars, cacheVars, fetchVars>>

\* allContentSources.filter(s => s.content)
RECURSIVE FilterContent(_)
FilterContent(sources) ==
  IF sources = <<>> THEN <<>>
  ELSE IF Falsy(Head(sources).content) THEN FilterContent(Tail(sources))
  ELSE <<Head(sources)>> \o FilterContent(Tail(sources))
\* contentMap[source] = content unless the content is too large
RECURSIVE PassiveMap(_)
PassiveMap(sources) ==
  IF sources = <<>> THEN <<>>
  ELSE IF Head(sources).content.length > MAX_CONTENT_SIZE_BYTES THEN PassiveMap(Tail(sources))
  ELSE <<Head(sources).source>> \o PassiveMap(Tail(sources))

\* the source loop of runPassiveScan, which has no await
PassiveSources(allContentSources) ==
  /\ walk.status = "idle"
  /\ LET scanned == FilterContent(allContentSources) IN
     /\ findings' = AllFindings(scanned)
     /\ walk' = [walk EXCEPT !.engine = "passive", !.scripts = allContentSources,
                             !.next = Len(allContentSources) + 1, !.status = "done",
                             !.burst = Len(allContentSources),
                             !.contentMap = PassiveMap(scanned)]
  /\ UNCHANGED <<scan, results, log, view, versionCache, popup, worker, sample, coordinator, decoding, context, reconstruction, backgroundVars, cacheVars, fetchVars>>

\* the next page
NextPage ==
  /\ walk.status = "done"
  /\ walk' = [engine |-> "none", status |-> "idle", scripts |-> <<>>, next |-> 0, contentMap |-> <<>>, burst |-> 0, order |-> <<>>]
  /\ results' = Undefined /\ findings' = <<>>
  /\ UNCHANGED <<scan, log, view, versionCache, popup, worker, sample, coordinator, decoding, context, reconstruction, backgroundVars, cacheVars, fetchVars>>

WalkInit == BackgroundInit /\ OverlayIdle

WalkNext ==
  \/ \E scripts \in ScriptLists : ProcessScriptsAsync(scripts)
  \/ ProcessChunk
  \/ \E allContentSources \in ScriptLists : PassiveSources(allContentSources)
  \/ NextPage

WalkSpec == WalkInit /\ [][WalkNext]_vars
\* every timer of the page fires
FairWalkSpec == WalkSpec /\ WF_vars(ProcessChunk)

\* the sources an engine has gone through, and those of them that have a text
Passed == SubSeq(walk.scripts, 1, walk.next - 1)
HasText(script) == script.content # Undefined /\ script.content.length > 0
\* the secret of a script passes the entropy gate of its rule
Passes(script) ==
  /\ script.content.secrets # <<>>
  /\ LET secret == script.content.secrets[1]
         rule == secretRules[secret.r] IN
     ~("entropy" \in DOMAIN rule
         /\ ShannonEntropy(secret.match.groups[rule.group + 1].text)
              < rule.entropy * Len(secret.match.groups[rule.group + 1].text))

\* C26: an engine never fails on a source without code: the sources it has
\* gone through and that have a text are, in their order, the keys of the
\* contentMap, those without text are not, and the secret of every source
\* with a text that passes its rule's gate is among the findings
C26_EmptySourceSkipped ==
  walk.status # "idle"
    => /\ walk.status \in {"timeout", "done"}
       /\ walk.contentMap = [i \in 1..Len(SelectSeq(Passed, HasText)) |->
                               SelectSeq(Passed, HasText)[i].source]
       /\ \A i \in 1..Len(Passed) :
            (HasText(Passed[i]) /\ Passes(Passed[i]))
              => IF walk.engine = "overlay"
                 THEN \E j \in DOMAIN results["Potential Secrets"] :
                        \E o \in DOMAIN results["Potential Secrets"][j].occurrences :
                          results["Potential Secrets"][j].occurrences[o].source = <<Passed[i].source>>
                 ELSE \E j \in DOMAIN findings : findings[j].source = Passed[i].source
C26_Witness ==
  \* the overlay has passed a source without code and a source with an
  \* empty text in its first chunk and found a secret in its second
  /\ walk.engine = "overlay" /\ walk.status = "done" /\ Len(walk.scripts) > ChunkSize
  /\ \E i \in 1..ChunkSize : walk.scripts[i].content = Undefined
  /\ \E i \in 1..ChunkSize : walk.scripts[i].content = EmptyCode
  /\ \E j \in DOMAIN results["Potential Secrets"] :
       \E o \in DOMAIN results["Potential Secrets"][j].occurrences :
         results["Potential Secrets"][j].occurrences[o].source = <<"Main HTML Document">>

(***************************************************************************)
(* shannonEntropy (src/unnamed/part_002) in the arithmetic of the code:    *)
(* IEEE 754 binary64, round to nearest, ties to even.  A number x of the   *)
(* range the model needs, 0 or 1/8 <= x < 4, is the pair <<hi, lo>> with   *)
(* x = (hi * Limb + lo) / 2^55, which is exact for every binary64 number   *)
(* of that range.                                                          *)
(***************************************************************************)
MaxChars == 6       \* length of the strings handed to shannonEntropy
Limb == 268435456   \* 2^28

Alphabet == {"a", "b", "c", "7"}
Strings == UNION {[1..n -> Alphabet] : n \in 0..MaxChars}

\* TermTable[len][freq] is the binary64 number -(p * Math.log2(p)) for the
\* binary64 number p = freq / len, Math.log2 being rounded correctly
TermTable ==
  <<
    <<<<0, 0>>>>,
    <<<<67108864, 0>>, <<0, 0>>>>,
    <<<<70910021, 251612780>>, <<52341558, 145311620>>, <<0, 0>>>>,
    <<<<67108864, 0>>, <<67108864, 0>>, <<41779042, 172068748>>, <<0, 0>>>>,
    <<<<62328782, 186570704>>, <<70970474, 51018860>>, <<59348308, 160496204>>, <<34566765, 263098998>>, <<0, 0>>>>,
    <<<<57824632, 81067146>>, <<70910021, 251612780>>, <<67108864, 0>>, <<52341558, 145311620>>, <<29419900, 75350224>>, <<0, 0>>>>,
    <<<<53828114, 50933276>>, <<69308306, 25170708>>, <<70314314, 97733144>>, <<61920767, 165385188>>, <<46537775, 163561274>>, <<25584861, 233814210>>, <<0, 0>>>>,
    <<<<50331648, 0>>, <<67108864, 0>>, <<71221169, 86034376>>, <<67108864, 0>>, <<56880794, 20946324>>, <<41779042, 172068748>>, <<22624336, 157795724>>, <<0, 0>>>>
  >>

Zero == <<0, 0>>
\* the unit in the last place of the binary64 numbers of the binade of
\* hi * Limb, in units of 2^-55
UnitInLastPlace(hi) ==
  IF hi >= Limb THEN 16 ELSE IF hi >= Limb \div 2 THEN 8 ELSE IF hi >= Limb \div 4 THEN 4
  ELSE IF hi >= Limb \div 8 THEN 2 ELSE 1

\* the binary64 number a + b
RoundedSum(a, b) ==
  LET low == a[2] + b[2]
      hi == a[1] + b[1] + low \div Limb
      lo == low % Limb
      u == UnitInLastPlace(hi)
      r == lo % u
      up == 2 * r > u \/ (2 * r = u /\ (lo \div u) % 2 = 1)
      rounded == IF up THEN lo - r + u ELSE lo - r IN
  <<hi + rounded \div Limb, rounded % Limb>>

\* the keys of the object frequencies in the order Object.values goes
\* through them: the array indices ("0" .. "9") in ascending order, then the
\* other characters in the order of their first occurrence in str
Digits == <<"0", "1", "2", "3", "4", "5", "6", "7", "8", "9">>
IsDigit(c) == \E d \in DOMAIN Digits : Digits[d] = c
RECURSIVE FirstOccurrences(_, _)
FirstOccurrences(str, seen) ==
  IF str = <<>> THEN <<>>
  ELSE IF Head(str) \in seen \/ IsDigit(Head(str)) THEN FirstOccurrences(Tail(str), seen)
  ELSE <<Head(str)>> \o FirstOccurrences(Tail(str), seen \cup {Head(str)})
Keys(str) ==
  LET Occurs(c) == \E i \in DOMAIN str : str[i] = c IN
  SelectSeq(Digits, Occurs) \o FirstOccurrences(str, {})

\* frequencies[char]
Frequency(str, char) == Cardinality({i \in DOMAIN str : str[i] = char})

\* the loop over Object.values(frequencies): entropy -= p * Math.log2(p)
RECURSIVE EntropyLoop(_, _, _)
EntropyLoop(entropy, str, keys) ==
  IF keys = <<>> THEN entropy
  ELSE EntropyLoop(RoundedSum(entropy, TermTable[Len(str)][Frequency(str, Head(keys))]),
                   str, Tail(keys))

\* shannonEntropy(str)
shannonEntropy(str) == IF str = <<>> THEN Zero ELSE EntropyLoop(Zero, str, Keys(str))

\* shannonEntropy is called with the string
Measure ==
  /\ sample.entropy = Undefined
  /\ sample' = [sample EXCEPT !.entropy = shannonEntropy(sample.str)]
  /\ UNCHANGED <<view, versionCache, popup, worker, walk, coordinator, decoding, context, reconstruction, backgroundVars, cacheVars, scanVars, fetchVars>>

EntropyInit ==
  /\ BackgroundInit /\ CacheIdle /\ ScanIdle /\ FetchIdle
  /\ ViewIdle /\ PopupIdle /\ WorkerIdle /\ WalkIdle /\ CoordinatorIdle /\ DecodingIdle /\ ContextIdle
  /\ ReconstructionIdle
  /\ sample \in {[str |-> str, entropy |-> Undefined] : str \in Strings}

EntropyNext == Measure

EntropySpec == EntropyInit /\ [][EntropyNext]_vars

\* the strings with the characters of str in another order
Reorderings(str) ==
  {t \in [DOMAIN str -> {str[i] : i \in DOMAIN str}] :
     \A c \in Alphabet : Frequency(t, c) = Frequency(str, c)}

\* C27 (as claimed): the entropy of the empty string and of a string of one
\* repeated character is 0, and every permutation of a string has the
\* entropy of the string
C27_OrderIndependent ==
  sample.entropy # Undefined
    => /\ sample.str = <<>> => sample.entropy = Zero
       /\ (\A i \in DOMAIN sample.str : sample.str[i] = sample.str[1]) => sample.entropy = Zero
       /\ \A t \in Reorderings(sample.str) : shannonEntropy(t) = sample.entropy

(***************************************************************************)
(* The queue-based coordinator (src/src/background.js, lines 580-985).     *)
(*                                                                         *)
(* triggerPassiveScan scrapes the page and pushes a job on scanQueue;      *)
(* processScanQueue takes one job at a time and awaits runPassiveScan.     *)
(* As above, one action is one uninterrupted run of the service worker,    *)
(* from one await to the next.  A page is identified by its tab: every tab *)
(* of this part shows one http page.                                       *)
(*   open      the tabs the browser has open                               *)
(*   scanned   the tabs whose page key is in the Map scannedPages          *)
(*   complete  the tabs whose page key is stored with status 'complete'    *)
(*   triggers  the calls of triggerPassiveScan that have not returned      *)
(*   runs      the calls of processScanQueue that took a job and have not  *)
(*             returned, each with the position of its runPassiveScan      *)
(*   pushed    history: the jobs in the order of scanQueue.push            *)
(*   taken     history: the jobs in the order runPassiveScan was called    *)
(*   thrown    history: the jobs whose runPassiveScan threw                *)
(* A job carries the number of the triggerPassiveScan call that pushed it. *)
(***************************************************************************)
MaxTriggers == 3     \* calls of triggerPassiveScan in one run
QueueTabs == {1, 2}

\* the test of line 737 that was replaced by "never busy"
NeverBusy(c) == FALSE

\* if (isScanInProgress) { ... return; }
Busy(c) == c.isScanInProgress

\* processScanQueue() up to its await: the guard, the flag, scanQueue.shift()
\* and runPassiveScan up to its first await (Promise.all of the fetches)
ProcessScanQueue(c) ==
  IF Busy(c) THEN c
  ELSE IF Len(c.scanQueue) = 0 THEN c
  ELSE [c EXCEPT !.isScanInProgress = TRUE,
                 !.scanQueue = Tail(c.scanQueue),
                 !.started = c.started + 1,
                 !.taken = Append(c.taken, Head(c.scanQueue).job),
                 !.runs = c.runs \cup {[id |-> c.started + 1,
                                        job |-> Head(c.scanQueue).job,
                                        tabId |-> Head(c.scanQueue).tabId,
                                        pc |-> "fetch", threw |-> FALSE]}]

\* the calls of runPassiveScan that have begun and whose promise has not settled
Executing == {r \in coordinator.runs : r.pc # "settled"}

QueueUnchanged ==
  UNCHANGED <<view, versionCache, popup, worker, walk, sample, decoding, context, reconstruction,
              backgroundVars, cacheVars, scanVars, fetchVars>>

\* a listener calls triggerPassiveScan(tabId, force): onUpdated with status
\* 'complete', onActivated, onHistoryStateUpdated (force = false) and the
\* message FORCE_PASSIVE_RESCAN, which first deletes the tab's keys of scannedPages
QueueTrigger(tabId, force) ==
  /\ coordinator.calls < MaxTriggers
  /\ coordinator' =
       [coordinator EXCEPT
          !.calls = @ + 1,
          !.scanned = IF force THEN @ \ {tabId} ELSE @,
          !.triggers = @ \cup {[id |-> coordinator.calls + 1, tabId |-> tabId,
                                force |-> force, pc |-> "get"]}]
  /\ QueueUnchanged

\* triggerPassiveScan after `await chrome.tabs.get(tabId)`: a closed tab throws
\* and the catch returns; a page of scannedPages returns unless forced
TriggerGet(t) ==
  /\ t \in coordinator.triggers /\ t.pc = "get"
  /\ coordinator' =
       IF t.tabId \notin coordinator.open
         THEN [coordinator EXCEPT !.triggers = @ \ {t}]
       ELSE IF t.tabId \in coordinator.scanned /\ ~t.force
         THEN [coordinator EXCEPT !.triggers = @ \ {t}]
       ELSE [coordinator EXCEPT !.triggers = (@ \ {t}) \cup {[t EXCEPT !.pc = "storage"]}]
  /\ QueueUnchanged

\* ... after `await chrome.storage.session.get(pageKey)`
TriggerStorage(t) ==
  /\ t \in coordinator.triggers /\ t.pc = "storage"
  /\ coordinator' =
       IF t.tabId \in coordinator.complete /\ ~t.force
         THEN [coordinator EXCEPT !.triggers = @ \ {t}, !.scanned = @ \cup {t.tabId}]
       ELSE [coordinator EXCEPT !.triggers = (@ \ {t}) \cup {[t EXCEPT !.pc = "scrape"]}]
  /\ QueueUnchanged

\* ... after `await chrome.scripting.executeScript(...)`: with page data the
\* job is pushed and processScanQueue() is called
TriggerScrape(t, pageData) ==
  /\ t \in coordinator.triggers /\ t.pc = "scrape"
  /\ LET rest == [coordinator EXCEPT !.triggers = @ \ {t}]
     IN coordinator' =
          IF t.tabId \notin coordinator.open \/ ~pageData THEN rest
          ELSE ProcessScanQueue([rest EXCEPT
                                   !.scanQueue = Append(@, [tabId |-> t.tabId, job |-> t.id]),
                                   !.pushed = Append(@, t.id)])
  /\ QueueUnchanged

\* runPassiveScan after `await Promise.all(...)`: the sources are matched
\* and the tab is asked for with chrome.tabs.get
RunFetched(r) ==
  /\ r \in coordinator.runs /\ r.pc = "fetch"
  /\ coordinator' = [coordinator EXCEPT !.runs = (@ \ {r}) \cup {[r EXCEPT !.pc = "get"]}]
  /\ QueueUnchanged

\* ... after `await chrome.tabs.get(tabId)`: a closed tab returns; otherwise
\* scannedPages.set and chrome.storage.session.set
RunGot(r) ==
  /\ r \in coordinator.runs /\ r.pc = "get"
  /\ coordinator' =
       IF r.tabId \notin coordinator.open
         THEN [coordinator EXCEPT !.runs = (@ \ {r}) \cup {[r EXCEPT !.pc = "settled"]}]
       ELSE [coordinator EXCEPT !.runs = (@ \ {r}) \cup {[r EXCEPT !.pc = "save"]},
                                !.scanned = @ \cup {r.tabId},
                                !.complete = @ \cup {r.tabId}]
  /\ QueueUnchanged

\* ... after `await chrome.storage.session.set(...)`: a quota error saves
\* once more without the contents, and a rejection of that second set is
\* not caught: runPassiveScan throws.  Anything else ends with updateActionUI
RunSaved(r, quota) ==
  /\ r \in coordinator.runs /\ r.pc \in {"save", "fallback"}
  /\ coordinator' =
       IF quota /\ r.pc = "save"
         THEN [coordinator EXCEPT !.runs = (@ \ {r}) \cup {[r EXCEPT !.pc = "fallback"]}]
       ELSE [coordinator EXCEPT
               !.runs = (@ \ {r}) \cup {[r EXCEPT !.pc = "settled", !.threw = quota]}]
  /\ QueueUnchanged

\* the finally block without its call of processScanQueue
AfterScanIdle(c) == c

\* finally { ...; processScanQueue(); }
AfterScan(c) == ProcessScanQueue(c)

\* processScanQueue after `await runPassiveScan(...)`: catch and finally
ScanFinally(r) ==
  /\ r \in coordinator.runs /\ r.pc = "settled"
  /\ coordinator' =
       AfterScan([coordinator EXCEPT !.runs = @ \ {r}, !.isScanInProgress = FALSE,
                                     !.thrown = IF r.threw THEN @ \cup {r.job} ELSE @])
  /\ QueueUnchanged

\* chrome.tabs.onRemoved: the tab's keys leave scannedPages and the storage
QueueTabRemoved(tabId) ==
  /\ tabId \in coordinator.open
  /\ coordinator' = [coordinator EXCEPT !.open = @ \ {tabId},
                                        !.scanned = @ \ {tabId},
                                        !.complete = @ \ {tabId}]
  /\ QueueUnchanged

QueueInit ==
  /\ BackgroundInit /\ CacheIdle /\ ScanIdle /\ FetchIdle
  /\ ViewIdle /\ PopupIdle /\ WorkerIdle /\ WalkIdle /\ SampleIdle /\ DecodingIdle /\ ContextIdle
  /\ ReconstructionIdle
  /\ coordinator = [scanQueue |-> <<>>, isScanInProgress |-> FALSE, open |-> QueueTabs,
                    scanned |-> {}, complete |-> {}, triggers |-> {}, runs |-> {},
                    calls |-> 0, started |-> 0, pushed |-> <<>>, taken |-> <<>>, thrown |-> {}]

QueueNext ==
  \/ \E tabId \in QueueTabs, force \in BOOLEAN : QueueTrigger(tabId, force)
  \/ \E t \in coordinator.triggers : TriggerGet(t)
  \/ \E t \in coordinator.triggers : TriggerStorage(t)
  \/ \E t \in coordinator.triggers, pageData \in BOOLEAN : TriggerScrape(t, pageData)
  \/ \E r \in coordinator.runs : RunFetched(r)
  \/ \E r \in coordinator.runs : RunGot(r)
  \/ \E r \in coordinator.runs, quota \in BOOLEAN : RunSaved(r, quota)
  \/ \E r \in coordinator.runs : ScanFinally(r)
  \/ \E tabId \in QueueTabs : QueueTabRemoved(tabId)

QueueSpec == QueueInit /\ [][QueueNext]_vars

\* every running scan terminates and its continuation is run
FairQueueSpec ==
  /\ QueueSpec
  /\ WF_vars(\E r \in coordinator.runs : RunFetched(r))
  /\ WF_vars(\E r \in coordinator.runs : RunGot(r))
  /\ WF_vars(\E r \in coordinator.runs, quota \in BOOLEAN : RunSaved(r, quota))
  /\ WF_vars(\E r \in coordinator.runs : ScanFinally(r))

\* C30: in the queue-based coordinator at most one runPassiveScan is
\* executing at any time, whatever the order of triggers and completions;
\* while one executes the flag isScanInProgress is set.
C30_AtMostOneScan ==
  /\ Cardinality(Executing) <= 1
  /\ Executing # {} => coordinator.isScanInProgress

\* a scan of one tab executes while a job of the other tab waits in the queue
C30_Witness ==
  \E r \in Executing :
    /\ Len(coordinator.scanQueue) > 0
    /\ Head(coordinator.scanQueue).tabId # r.tabId

\* the jobs waiting in scanQueue, in order
Waiting == [i \in 1..Len(coordinator.scanQueue) |-> coordinator.scanQueue[i].job]

\* C31: every job pushed to scanQueue is executed exactly once and in the
\* order of the pushes: the jobs taken so far followed by the jobs waiting
\* are the jobs pushed, so none is lost, repeated or overtaken; and as long
\* as every running scan terminates, by returning or by throwing, every job
\* pushed is eventually taken and its scan eventually leaves the coordinator.
C31_EveryJobOnceInOrder ==
  /\ [](coordinator.pushed = coordinator.taken \o Waiting)
  /\ \A j \in 1..MaxTriggers :
       (\E i \in DOMAIN coordinator.pushed : coordinator.pushed[i] = j)
         ~> /\ \E i \in DOMAIN coordinator.taken : coordinator.taken[i] = j
            /\ \A r \in coordinator.runs : r.job # j

\* after a scan that threw, a job pushed while that scan was running has been taken
C31_Witness ==
  /\ Len(coordinator.taken) = 2
  /\ coordinator.taken[1] \in coordinator.thrown
  /\ \E r \in Executing : r.job = coordinator.taken[2]

(***************************************************************************)
(* The two engines that cede control between content sources: the chunks   *)
(* of the overlay's processScriptsAsync and the offscreen performScan.     *)
(***************************************************************************)
EngineInit == BackgroundInit /\ OverlayIdle
EngineNext == WalkNext \/ WorkerNext
EngineSpec == EngineInit /\ [][EngineNext]_vars

\* C32: the overlay engine never hands more than 5 content sources to
\* processSingleScript in one uninterrupted run, and a timer is pending
\* whenever sources remain; the offscreen scan never goes through more than
\* one content source in one run and waits for a timer after each.
C32_YieldsBetweenSources ==
  /\ walk.engine = "overlay"
       => /\ walk.burst <= 5
          /\ walk.next <= Len(walk.scripts) => walk.status = "timeout"
  /\ \A id \in 1..MaxRequests :
       /\ worker[id].burst <= 1
       /\ worker[id].burst = 1 => worker[id].pc = "timeout"

\* the overlay is through the second chunk of a page of 7 sources, and an
\* offscreen scan waits for its timer after its second source
C32_Witness ==
  /\ walk.engine = "overlay" /\ Len(walk.scripts) = 7 /\ walk.next = 8 /\ walk.burst = 2
  /\ \E id \in 1..MaxRequests : worker[id].pc = "timeout" /\ worker[id].next = 3

\* C33: for every list of content sources, the empty one included, the
\* chunked pass hands the sources to processSingleScript once each and in
\* list order, the promise of processScriptsAsync is resolved only when all
\* of them were handed over, and a pass that waits for its timer ends.
C33_ChunkedPassCompletes ==
  /\ [](walk.engine = "overlay"
          => /\ walk.order = [i \in 1..(walk.next - 1) |-> i]
             /\ walk.next <= Len(walk.scripts) + 1
             /\ walk.status = "done" => Len(walk.order) = Len(walk.scripts))
  /\ (walk.engine = "overlay" /\ walk.status = "timeout")
       ~> (walk.engine = "overlay" /\ walk.status = "done")

\* the pass over a page of 7 sources has ended after its second chunk
C33_Witness ==
  /\ walk.engine = "overlay" /\ walk.status = "done"
  /\ walk.order = <<1, 2, 3, 4, 5, 6, 7>> /\ walk.burst = 2

\* the capture group of a processed match is missing, empty or blank
Blank(entry) ==
  LET g == entry.match.groups[entry.rule.group + 1] IN
  g = Undefined \/ \A i \in DOMAIN g.text : g.text[i] \in Whitespace
HasValue(entry) == entry.engine = "overlay" /\ ~Blank(entry)
\* the occurrences recorded in a category
RECURSIVE OccurrenceCount(_)
OccurrenceCount(map) ==
  IF map = <<>> THEN 0 ELSE Len(Head(map).occurrences) + OccurrenceCount(Tail(map))

\* C34: no finding is recorded with an empty value: every recorded value is
\* non-empty and has no whitespace at either end, every finding has an
\* occurrence, and in every category there are no more occurrences than
\* processed matches of the category whose capture group has a value, so a
\* match with a missing, empty or blank group adds nothing.
C34_NoEmptyFinding ==
  results # Undefined
    => \A name \in DOMAIN results :
         /\ \A i \in DOMAIN results[name] :
              LET value == results[name][i].finding IN
              /\ value # <<>>
              /\ value[1] \notin Whitespace /\ value[Len(value)] \notin Whitespace
              /\ results[name][i].occurrences # <<>>
         /\ OccurrenceCount(results[name])
              <= Cardinality({k \in DOMAIN log : HasValue(log[k]) /\ log[k].name = name})

\* a match with a blank group and a match with a group that ends in a
\* blank were processed: only the second left a finding, trimmed
C34_Witness ==
  /\ \E k \in DOMAIN log : log[k].name = "Interesting Parameters" /\ Blank(log[k])
  /\ \E k \in DOMAIN log : log[k].name = "Interesting Parameters" /\ log[k].match.index = 9
  /\ results # Undefined
  /\ results["Interesting Parameters"] =
       <<[finding |-> <<"i", "d">>,
          occurrences |-> <<[source |-> <<"Inline Script #1">>, ruleId |-> Undefined,
                             index |-> 9, secretLength |-> 2]>>]>>

\* the place of a content source in the list the engine was handed
SourceIndex(source) == CHOOSE i \in DOMAIN walk.scripts : <<walk.scripts[i].source>> = source

\* C35: the occurrences of a finding are listed in the order of discovery:
\* an occurrence from an earlier content source stands before one from a
\* later source, and two occurrences from the same source and the same rule
\* stand in the order of their positions in the text.
C35_DiscoveryOrder ==
  (walk.engine = "overlay" /\ results # Undefined)
    => \A name \in DOMAIN results : \A f \in DOMAIN results[name] :
         LET occurrences == results[name][f].occurrences IN
         \A i, j \in DOMAIN occurrences :
           i < j =>
             /\ SourceIndex(occurrences[i].source) <= SourceIndex(occurrences[j].source)
             /\ (occurrences[i].source = occurrences[j].source
                   /\ occurrences[i].ruleId = occurrences[j].ruleId)
                  => occurrences[i].index < occurrences[j].index

\* one key has two occurrences from the first source and one from a later source
C35_Witness ==
  /\ walk.engine = "overlay" /\ walk.status = "done"
  /\ \E f \in DOMAIN results["Potential Secrets"] :
       LET occurrences == results["Potential Secrets"][f].occurrences IN
       /\ Len(occurrences) = 3
       /\ occurrences[1].source = occurrences[2].source
       /\ occurrences[3].source # occurrences[1].source
(***************************************************************************)
(* decodeText of the overlay (src/src/overlay/overlay.js, lines 500-517).  *)
(* A text is a sequence of characters; a control character is written by   *)
(* its code, "<0A>" for the line feed.  The texts of the model are built   *)
(* from the characters of the escapes decodeText looks for; neither they   *)
(* nor their decodings hold a '&' or a '<', so the textarea that decodes   *)
(* character references has none to decode.                                *)
(***************************************************************************)
MaxText == 5
TextAlphabet == {"%", "\\", "u", "0", "2", "5", "4", "1", "c"}
Texts == UNION {[1..n -> TextAlphabet] : n \in 0..MaxText}

\* String.fromCharCode(n) for n < 128, at place n + 1; the grave accent is
\* written by its code
Ascii ==
  <<
      "<00>", "<01>", "<02>", "<03>", "<04>", "<05>", "<06>", "<07>", "<08>", "<09>", "<0A>", "<0B>", "<0C>", "<0D>", "<0E>", "<0F>",
      "<10>", "<11>", "<12>", "<13>", "<14>", "<15>", "<16>", "<17>", "<18>", "<19>", "<1A>", "<1B>", "<1C>", "<1D>", "<1E>", "<1F>",
      " ", "!", "\"", "#", "$", "%", "&", "'", "(", ")", "*", "+", ",", "-", ".", "/",
      "0", "1", "2", "3", "4", "5", "6", "7", "8", "9", ":", ";", "<", "=", ">", "?",
      "@", "A", "B", "C", "D", "E", "F", "G", "H", "I", "J", "K", "L", "M", "N", "O",
      "P", "Q", "R", "S", "T", "U", "V", "W", "X", "Y", "Z", "[", "\\", "]", "^", "_",
      "<60>", "a", "b", "c", "d", "e", "f", "g", "h", "i", "j", "k", "l", "m", "n", "o",
      "p", "q", "r", "s", "t", "u", "v", "w", "x", "y", "z", "{", "|", "}", "~", "<7F>">>

\* [0-9a-f] under the flag i
HexDigits ==
  {"0", "1", "2", "3", "4", "5", "6", "7", "8", "9",
   "a", "b", "c", "d", "e", "f", "A", "B", "C", "D", "E", "F"}
HexValue(c) ==
  CASE c = "0" -> 0 [] c = "1" -> 1 [] c = "2" -> 2 [] c = "3" -> 3 [] c = "4" -> 4
    [] c = "5" -> 5 [] c = "6" -> 6 [] c = "7" -> 7 [] c = "8" -> 8 [] c = "9" -> 9
    [] c \in {"a", "A"} -> 10 [] c \in {"b", "B"} -> 11 [] c \in {"c", "C"} -> 12
    [] c \in {"d", "D"} -> 13 [] c \in {"e", "E"} -> 14 [] c \in {"f", "F"} -> 15

\* u00([0-9a-f]{2}) matches at place i, under the flag i
UnicodeEscapeAt(str, i) ==
  /\ i + 4 <= Len(str)
  /\ str[i] \in {"u", "U"} /\ str[i + 1] = "0" /\ str[i + 2] = "0"
  /\ str[i + 3] \in HexDigits /\ str[i + 4] \in HexDigits

\* str.replace(/\\?u00([0-9a-f]{2})/gi, (match, hex) => `%${hex}`)
RECURSIVE Standardized(_, _)
Standardized(str, i) ==
  IF i > Len(str) THEN <<>>
  ELSE IF str[i] = "\\" /\ UnicodeEscapeAt(str, i + 1)
  THEN <<"%", str[i + 4], str[i + 5]>> \o Standardized(str, i + 6)
  ELSE IF UnicodeEscapeAt(str, i)
  THEN <<"%", str[i + 3], str[i + 4]>> \o Standardized(str, i + 5)
  ELSE <<str[i]>> \o Standardized(str, i + 1)

\* decodeURIComponent of one escape %XX: the character of a code below 128;
\* a lone byte of a longer UTF-8 sequence throws and the match is kept
DecodeURIComponent(high, low) ==
  IF 16 * HexValue(high) + HexValue(low) < 128
  THEN <<Ascii[16 * HexValue(high) + HexValue(low) + 1]>>
  ELSE <<"%", high, low>>

\* standardizedStr.replace(/%[0-9a-f]{2}/gi, ...): one pass from left to
\* right, the replacement is not looked at again
RECURSIVE PercentDecoded(_, _)
PercentDecoded(str, i) ==
  IF i > Len(str) THEN <<>>
  ELSE IF i + 2 <= Len(str) /\ str[i] = "%" /\ str[i + 1] \in HexDigits /\ str[i + 2] \in HexDigits
  THEN DecodeURIComponent(str[i + 1], str[i + 2]) \o PercentDecoded(str, i + 3)
  ELSE <<str[i]>> \o PercentDecoded(str, i + 1)

\* tempEl.innerHTML = decodedStr; tempEl.value: the parser replaces a NUL
\* by U+FFFD and a carriage return, with the line feed after it if there is
\* one, by a line feed
RECURSIVE TextareaValue(_, _)
TextareaValue(str, i) ==
  IF i > Len(str) THEN <<>>
  ELSE IF str[i] = "<00>" THEN <<"<FFFD>">> \o TextareaValue(str, i + 1)
  ELSE IF str[i] = "<0D>"
  THEN <<"<0A>">> \o TextareaValue(str, IF i < Len(str) /\ str[i + 1] = "<0A>" THEN i + 2 ELSE i + 1)
  ELSE <<str[i]>> \o TextareaValue(str, i + 1)

\* decodeText(str)
decodeText(str) == TextareaValue(PercentDecoded(Standardized(str, 1), 1), 1)

\* processSingleScript: const decodedCode = decodeText(code)
DecodeCode ==
  /\ decoding.decodedCode = Undefined
  /\ decoding' = [decoding EXCEPT !.decodedCode = Text(decodeText(decoding.code))]
  /\ UNCHANGED <<view, versionCache, popup, worker, walk, sample, coordinator, context, reconstruction,
                 backgroundVars, cacheVars, scanVars, fetchVars>>

DecodeInit ==
  /\ BackgroundInit /\ CacheIdle /\ ScanIdle /\ FetchIdle
  /\ ViewIdle /\ PopupIdle /\ WorkerIdle /\ WalkIdle /\ SampleIdle /\ CoordinatorIdle
  /\ ContextIdle /\ ReconstructionIdle
  /\ decoding \in {[code |-> code, decodedCode |-> Undefined] : code \in Texts}

DecodeNext == DecodeCode

DecodeSpec == DecodeInit /\ [][DecodeNext]_vars

\* C36: the text the patterns are applied to holds no escape decodeText
\* would still decode: decoding it once more leaves it unchanged.
C36_DecodedToTheEnd ==
  decoding.decodedCode # Undefined
    => decodeText(decoding.decodedCode.text) = decoding.decodedCode.text

\* C38: results that setCachedResults wrote and getCachedResults reads back
\* before the entry expired are the results written: the same categories,
\* in every category the same finding values, and under every value the
\* same occurrences in the same order.
C38_CacheRoundTrip ==
  [][(handed # Undefined /\ local = handed.data /\ handed' = Undefined /\ returned' # Null)
       => /\ DOMAIN returned'.results = DOMAIN handed.results
          /\ \A c \in DOMAIN handed.results :
               /\ Len(returned'.results[c]) = Len(handed.results[c])
               /\ \A i \in DOMAIN handed.results[c] :
                    \E j \in DOMAIN returned'.results[c] :
                      /\ returned'.results[c][j].key = handed.results[c][i].key
                      /\ returned'.results[c][j].occurrences = handed.results[c][i].occurrences]_vars

\* the Map whose first value has three occurrences was written, stored and
\* read back some time later: the value comes second, with its occurrences
C38_Witness ==
  /\ local # Undefined /\ returned # Undefined /\ returned # Null
  /\ now > local.timestamp
  /\ Len(returned.results["Potential Secrets"]) = 2
  /\ returned.results["Potential Secrets"][2].occurrences = <<9, 9, 2>>

(***************************************************************************)
(* The context of an occurrence (src/src/overlay/overlay.js): processMatch *)
(* records match.index and the length of the trimmed value; renderListItem *)
(* cuts the snippet of an occurrence in a fetched script and the click on  *)
(* a local source cuts the text of the modal.  A text is given by its      *)
(* length and a piece of it by the places of its first character and of    *)
(* the character after its last, counted from 0 as substring counts.       *)
(***************************************************************************)
SnippetRadius == 40
ModalRadius == 250
\* the place of a match in its text, the place of the rule's capture group
\* in the match (up to 90 for adafruit-api-key), the white space that begins
\* the group, the length of the trimmed value, and the length of the text
\* after the value
MatchIndexes == {0, 10, 300}
GroupOffsets == {0, 1, 8, 39, 40, 41, 90}
LeadingBlanks == {0, 1}
ValueLengths == {4, 32}
TailLengths == {0, 5, 300}

Least(a, b) == IF a < b THEN a ELSE b
Greatest(a, b) == IF a > b THEN a ELSE b

\* processMatch: occurrence = { source, ruleId, index: match.index,
\* secretLength: finding.length }
Occurrence(match, isLocal) ==
  [isLocal |-> isLocal, index |-> match.index, secretLength |-> match.valueLength]

\* fullCode.substring(Math.max(0, index - radius),
\*                    Math.min(fullCode.length, index + length + radius))
ContextWindow(fullCodeLength, occurrence, radius) ==
  [start |-> Greatest(0, occurrence.index - radius),
   end |-> Least(fullCodeLength, occurrence.index + occurrence.secretLength + radius)]

\* applyRulesToCode hands a match of a source text to processMatch
RecordOccurrence(index, offset, blanks, length, tail, isLocal) ==
  /\ context.status = "idle"
  /\ LET match == [index |-> index, groupOffset |-> offset, blanks |-> blanks, valueLength |-> length] IN
     context' = [status |-> "found",
                 fullCodeLength |-> index + offset + blanks + length + tail,
                 match |-> match,
                 occurrence |-> Occurrence(match, isLocal),
                 window |-> Undefined]
  /\ UNCHANGED <<view, versionCache, popup, worker, walk, sample, coordinator, decoding,
                 reconstruction,                  backgroundVars, cacheVars, scanVars, fetchVars>>

\* renderListItem: the snippet of an occurrence that is not in a local source
RenderListItem ==
  /\ context.status = "found" /\ ~context.occurrence.isLocal
  /\ context' = [context EXCEPT
                   !.status = "shown",
                   !.window = ContextWindow(context.fullCodeLength, context.occurrence, SnippetRadius)]
  /\ UNCHANGED <<view, versionCache, popup, worker, walk, sample, coordinator, decoding,
                 reconstruction,                  backgroundVars, cacheVars, scanVars, fetchVars>>

\* the click on a clickable-source: the text of the modal
ClickSource ==
  /\ context.status = "found" /\ context.occurrence.isLocal
  /\ context' = [context EXCEPT
                   !.status = "shown",
                   !.window = ContextWindow(context.fullCodeLength, context.occurrence, ModalRadius)]
  /\ UNCHANGED <<view, versionCache, popup, worker, walk, sample, coordinator, decoding,
                 reconstruction,                  backgroundVars, cacheVars, scanVars, fetchVars>>

\* the next match
NextMatch ==
  /\ context.status = "shown"
  /\ context' = [status |-> "idle"]
  /\ UNCHANGED <<view, versionCache, popup, worker, walk, sample, coordinator, decoding,
                 reconstruction,                  backgroundVars, cacheVars, scanVars, fetchVars>>

ContextInit == BackgroundInit /\ OverlayIdle

ContextNext ==
  \/ \E index \in MatchIndexes, offset \in GroupOffsets, blanks \in LeadingBlanks,
        length \in ValueLengths, tail \in TailLengths, isLocal \in BOOLEAN :
       RecordOccurrence(index, offset, blanks, length, tail, isLocal)
  \/ RenderListItem
  \/ ClickSource
  \/ NextMatch

ContextSpec == ContextInit /\ [][ContextNext]_vars

\* the places of the value in the text
ValueStart == context.match.index + context.match.groupOffset + context.match.blanks
ValueEnd == ValueStart + context.match.valueLength

\* C37: the context window of an occurrence lies within its source text
\* and holds the value of the finding, wherever in the match the capture
\* group stands.
C37_WindowHoldsValue ==
  context.status = "shown"
    => /\ 0 <= context.window.start /\ context.window.start <= context.window.end
       /\ context.window.end <= context.fullCodeLength
       /\ context.window.start <= ValueStart /\ ValueEnd <= context.window.end

(***************************************************************************)
(* Tabs whose ids share a decimal prefix: the removal listener and the     *)
(* FORCE_PASSIVE_RESCAN handler with tabs 1 and 11 open.  Each tab shows   *)
(* UrlA, scanned to completion; some have a completed record of UrlB too.  *)
(***************************************************************************)
NeighbourTabs == {1, 11}

\* the pages of the tabs that were scanned to completion
ScannedKeys(visited) ==
  {PageKey(t, UrlA) : t \in NeighbourTabs} \cup {PageKey(t, UrlB) : t \in visited}

NeighbourInit ==
  /\ OverlayIdle
  /\ tabs = [t \in NeighbourTabs |-> [url |-> UrlA, nav |-> "completed"]]
  /\ \E visited \in SUBSET NeighbourTabs :
       /\ scannedPages = [key \in ScannedKeys(visited) |-> 0]
       /\ storage = [key \in ScannedKeys(visited) |-> Complete(0, "full", FALSE)]
  /\ scansInProgress = {}
  /\ badge = [t \in NeighbourTabs |-> NotFoundIcon]
  /\ tasks = EmptyMap
  /\ events = 0
  /\ faulted = FALSE

NeighbourNext ==
  \/ \E t \in NeighbourTabs : OnRemoved(t)
  \/ \E t \in NeighbourTabs : OnForcePassiveRescan(t)
  \/ \E k \in Running : TriggerTabsGet(k)
  \/ \E k \in Running : TriggerStorageGet(k)
  \/ \E k \in Running : ScanStateTabsGet(k)
  \/ \E k \in Running : ScanExecuteScript(k)
  \/ \E k \in Running : ScanFetch(k)
  \/ \E k \in Running : ScanSetRejected(k)
  \/ \E k \in Running : ScanRetryRejected(k)
  \/ \E k \in Running : ScanStorageSet(k)

NeighbourSpec == NeighbourInit /\ [][NeighbourNext]_vars

\* a step of the forced rescan the handler launched for tabId
ForcedRescanStep(tabId) ==
  \E k \in Running :
    /\ k.tab = tabId /\ k.force
    /\ \/ TriggerTabsGet(k) \/ TriggerStorageGet(k) \/ ScanStateTabsGet(k)
       \/ ScanExecuteScript(k) \/ ScanFetch(k) \/ ScanSetRejected(k)
       \/ ScanRetryRejected(k) \/ ScanStorageSet(k)

\* the record of a page in a map: one element, or none
RecordOf(m, key) == IF Has(m, key) THEN <<m[key]>> ELSE <<>>
\* the completed-page records and the stored entries of tabId are untouched
TabUntouched(tabId) ==
  \A url \in Urls :
    /\ RecordOf(scannedPages', PageKey(tabId, url)) = RecordOf(scannedPages, PageKey(tabId, url))
    /\ RecordOf(storage', PageKey(tabId, url)) = RecordOf(storage, PageKey(tabId, url))

\* C39: handling the close of a tab, or a forced rescan of it (the handler
\* and the scan it launches), leaves the completed-page records in memory and
\* the stored entries of every other tab as they were, also when the id of
\* the other tab begins with the digits of the handled tab (1 and 11)
C39_OtherTabsUntouched ==
  [][\A tabId \in NeighbourTabs :
       (OnRemoved(tabId) \/ OnForcePassiveRescan(tabId) \/ ForcedRescanStep(tabId))
         => \A other \in NeighbourTabs \ {tabId} : TabUntouched(other)]_vars

\* tab 1 was rescanned by force and then closed, and tab 11 still has the
\* records and the stored entries of both of its pages
C39_Witness ==
  /\ ~TabOpen(1) /\ KeysOfTab(scannedPages, 1) = {}
  /\ Has(storage, PageKey(1, UrlA)) /\ storage[PageKey(1, UrlA)].status = "complete"
  /\ storage[PageKey(1, UrlA)].force
  /\ TabOpen(11)
  /\ \A url \in {UrlA, UrlB} :
       /\ Has(scannedPages, PageKey(11, url))
       /\ IsComplete(storage, PageKey(11, url))

(***************************************************************************)
(* reconstructSource(sourceMapUrl) (src/unnamed/part_001): the source map  *)
(* is asked for with chrome.runtime.sendMessage, and every source that has *)
(* no embedded content is fetched.  What the message and the fetches       *)
(* settle with is the environment's choice.                                *)
(***************************************************************************)
MaxSourceFiles == 3
SourcePaths == {"a.js", "b.js", "c.js"}
ErrorLogKey == "jsrecon.buddy.error.log"

\* JSON values of the answer: an array, an object, a string
Array(items) == [type |-> "array", items |-> items]
Object == [type |-> "object"]
EmbeddedText == [type |-> "string", length |-> 9]
EmptyText == [type |-> "string", length |-> 0]
\* the values `sources` and `sourcesContent` can have in an answer
SourcesArrays == UNION {[1..n -> SourcePaths] : n \in 0..MaxSourceFiles}
SourcesValues == {Undefined, Null, Object} \cup {Array(items) : items \in SourcesArrays}
ContentsValues(sources) ==
  {Undefined} \cup
  (IF sources.type = "array"
   THEN {Array(items) : items \in UNION {[1..n -> {Null, EmptyText, EmbeddedText}] :
                                           n \in {0, Len(sources.items)}}}
   ELSE {})
\* what the awaited chrome.runtime.sendMessage settles with: it rejects, or
\* it resolves with no answer or with an answer; status "none" stands for an
\* answer without a status property
Answers ==
  {[status |-> status, sources |-> Undefined, sourcesContent |-> Undefined] :
     status \in {"not_found", "error"}} \cup
  UNION {{[status |-> "none", sources |-> sources, sourcesContent |-> contents] :
            contents \in ContentsValues(sources)} : sources \in SourcesValues}
MessageOutcomes ==
  {[settled |-> "rejected", reason |-> "Error: Could not establish connection"]} \cup
  {[settled |-> "resolved", value |-> value] : value \in {Undefined} \cup Answers}

\* faulty variant: the error leaves the function
Rethrown(error) == [settled |-> "rejected", reason |-> error]
\* catch (error) { return { "jsrecon.buddy.error.log": error.toString() }; }
Caught(error) == [settled |-> "resolved", value |-> [key \in {ErrorLogKey} |-> error]]
\* return reconstructedSources
Returned(reconstructedSources) == [settled |-> "resolved", value |-> reconstructedSources]

\* sourceMapData.sourcesContent?.[index]
EmbeddedContent(sourceMapData, index) ==
  IF sourceMapData.sourcesContent = Undefined THEN Undefined
  ELSE IF index > Len(sourceMapData.sourcesContent.items) THEN Undefined
  ELSE sourceMapData.sourcesContent.items[index]
\* if (embeddedContent)
Truthy(embeddedContent) ==
  /\ embeddedContent # Undefined /\ embeddedContent # Null
  /\ embeddedContent.length > 0

\* what is stored for a source: its embedded content, the text fetched, or
\* the note that the file is missing
Stored(kind, index) == [kind |-> kind, index |-> index]

\* the for loop from the source at index up to the next awaited fetch, or
\* to the return statement
RECURSIVE LoopFrom(_, _, _)
LoopFrom(sourceMapData, index, reconstructedSources) ==
  LET sources == sourceMapData.sources.items IN
  IF index > Len(sources)
  THEN [status |-> "settled", promise |-> Returned(reconstructedSources)]
  ELSE IF Truthy(EmbeddedContent(sourceMapData, index))
  THEN LoopFrom(sourceMapData, index + 1,
                MapSet(reconstructedSources, sources[index], Stored("embedded", index)))
  ELSE [status |-> "fetch", index |-> index, reconstructedSources |-> reconstructedSources]

\* the statements from the answer of the message to the for loop
AfterMessage(outcome) ==
  IF outcome.settled = "rejected"
  THEN [status |-> "settled", promise |-> Caught(outcome.reason)]
  ELSE LET sourceMapData == outcome.value IN
  IF sourceMapData # Undefined /\ sourceMapData.status = "not_found"
  THEN [status |-> "settled", promise |-> Caught("Error: Source map not found")]
  ELSE IF sourceMapData # Undefined /\ sourceMapData.status = "error"
  THEN [status |-> "settled", promise |-> Caught("Error: Failed to fetch source map")]
  ELSE IF sourceMapData = Undefined \/ sourceMapData.sources \in {Undefined, Null}
  THEN [status |-> "settled", promise |-> Caught("Error: Source map is invalid")]
  ELSE IF sourceMapData.sources.type # "array"
  THEN [status |-> "settled", promise |-> Caught("TypeError: entries is not a function")]
  ELSE LoopFrom(sourceMapData, 1, EmptyMap)

ReconstructionUnchanged ==
  UNCHANGED <<view, versionCache, popup, worker, walk, sample, coordinator, decoding, context,
              backgroundVars, cacheVars, scanVars, fetchVars>>

\* reconstructSource(sourceMapUrl) up to its await chrome.runtime.sendMessage
ReconstructSource ==
  /\ reconstruction.status = "idle"
  /\ reconstruction' = [status |-> "sendMessage"]
  /\ ReconstructionUnchanged

\* the message settled with outcome; answered and fetched are history: the
\* outcome of the message and of the fetch of each source that was fetched
MessageSettled(outcome) ==
  /\ reconstruction.status = "sendMessage"
  /\ reconstruction' = [answered |-> outcome, fetched |-> EmptyMap] @@ AfterMessage(outcome)
  /\ ReconstructionUnchanged

\* the fetch of the source at reconstruction.index settled: its text was
\* read, the response was not ok, or new URL, fetch or text() threw
SourceFetched(outcome) ==
  /\ reconstruction.status = "fetch"
  /\ LET sourceMapData == reconstruction.answered.value
         index == reconstruction.index
         sourceFile == sourceMapData.sources.items[index]
         reconstructedSources ==
           IF outcome = "throws" THEN reconstruction.reconstructedSources
           ELSE MapSet(reconstruction.reconstructedSources, sourceFile, Stored(outcome, index)) IN
     reconstruction' =
       [answered |-> reconstruction.answered,
        fetched |-> MapSet(reconstruction.fetched, index, outcome)]
         @@ LoopFrom(sourceMapData, index + 1, reconstructedSources)
  /\ ReconstructionUnchanged

\* the caller has the sources; the next source map is clicked
NextSourceMap ==
  /\ reconstruction.status = "settled"
  /\ reconstruction' = [status |-> "idle"]
  /\ ReconstructionUnchanged

ReconstructionInit == BackgroundInit /\ OverlayIdle

ReconstructionNext ==
  \/ ReconstructSource
  \/ \E outcome \in MessageOutcomes : MessageSettled(outcome)
  \/ \E outcome \in {"text", "missing", "throws"} : SourceFetched(outcome)
  \/ NextSourceMap

ReconstructionSpec == ReconstructionInit /\ [][ReconstructionNext]_vars

\* the source map could not be fetched, was reported not found, or has no
\* sources array
NoSources(answered) ==
  \/ answered.settled = "rejected"
  \/ answered.value = Undefined
  \/ answered.value.status \in {"not_found", "error"}
  \/ answered.value.sources \in {Undefined, Null, Object}
\* the source at index got content: embedded, fetched, or the note
HasContent(index) ==
  \/ Truthy(EmbeddedContent(reconstruction.answered.value, index))
  \/ Has(reconstruction.fetched, index) /\ reconstruction.fetched[index] # "throws"
\* the last source of that path that got content
LastOf(path) ==
  LET sources == reconstruction.answered.value.sources.items IN
  LET indexes == {index \in 1..Len(sources) : sources[index] = path /\ HasContent(index)} IN
  CHOOSE last \in indexes : \A index \in indexes : index <= last

\* C40: the promise of reconstructSource is never rejected.  When the source
\* map could not be fetched, was reported not found or has no sources array,
\* it resolves to an object whose only key is jsrecon.buddy.error.log.
\* Otherwise it resolves to a map whose keys are the paths of the sources that
\* got content, each with the content of its last such source: a source
\* whose fetch failed takes no other source out of the map.
C40_AlwaysResolves ==
  reconstruction.status = "settled" =>
    LET promise == reconstruction.promise
        answered == reconstruction.answered IN
    /\ promise.settled = "resolved"
    /\ IF NoSources(answered) THEN DOMAIN promise.value = {ErrorLogKey}
       ELSE LET sources == answered.value.sources.items
                kept == {index \in 1..Len(sources) : HasContent(index)} IN
            /\ DOMAIN promise.value = {sources[index] : index \in kept}
            /\ \A path \in DOMAIN promise.value :
                 /\ promise.value[path].index = LastOf(path)
                 /\ promise.value[path].kind =
                      (IF Has(reconstruction.fetched, LastOf(path))
                       THEN reconstruction.fetched[LastOf(path)] ELSE "embedded")

\* three sources: the first is embedded, the fetch of the second threw, the
\* third was fetched; the map holds the first and the third
C40_Witness ==
  /\ reconstruction.status = "settled"
  /\ ~NoSources(reconstruction.answered)
  /\ reconstruction.answered.value.sources.items = <<"a.js", "b.js", "c.js">>
  /\ reconstruction.fetched = (2 :> "throws" @@ 3 :> "text")
  /\ reconstruction.promise = Returned(("a.js" :> Stored("embedded", 1)) @@ ("c.js" :> Stored("text", 3)))

====
